---- MODULE Spec2Model ----
(***************************************************************************)
(* Unicrium network: the ledger state machine (storage/ledger.py), the     *)
(* data model it works on (blockchain/models.py), the proof-of-stake       *)
(* registry (core/pos.py) and the chain driver (blockchain/blockchain.py). *)
(*                                                                         *)
(* Amounts are small naturals.  A float fraction or commission rate is a   *)
(* pair <<num, den>> or a percentage, so that int(x * fraction) is the     *)
(* truncated quotient the code computes.                                   *)
(***************************************************************************)
EXTENDS Integers, Sequences, FiniteSets, TLC

\* ------------------------------------------------------------------ bounds
MaxApplied == 2         \* cap on the transactions applied with success
MaxMinted == 1          \* cap on the value credited by apply_block_reward
MaxBurned == 2          \* cap on the total returned by slash_validator
MaxPending == 1         \* cap on the length of the mempool
MaxBlocks == 2          \* cap on the length of the chain
MaxBlockTxs == 2        \* cap on the transactions of one block
MaxSlashed == 1400      \* cap on the total returned in the slashing scenario
MaxBeyond == 2          \* blocks of a chain beyond those a restart reads back

\* ------------------------------------------------------- program constants
\* _apply_unstake(..., unbonding_blocks = 1_814_400)
unbonding_blocks == 1814400
\* commission_rate = tx.data.get("commission_rate", 0.1), in percent
DefaultCommission == 10
\* ProofOfStake(min_stake = 100000 * 10**8); registry stakes are counted in
\* units of 100000 * 10**8
min_stake == 1
\* FinalityManager(finality_depth = 3, supermajority_threshold = 0.67)
finality_depth == 3
\* create_block: txs = self.pending_transactions[:100]
block_capacity == 100
\* _load_state: range(max(0, height - 100), height + 1)
load_lookback == 100

\* ---------------------------------------------------------------- values
Addrs == {"A", "B"}
None == "None"
GenesisBalance == [a \in Addrs |-> IF a = "A" THEN 2 ELSE 1]  \* at genesis
Amounts == {0, 1, 2}          \* tx.amount
SmallAmounts == {0, 1}
Fees == {0, 1}                \* tx.fee
Rewards == {0, 1}             \* the reward argument of apply_block_reward
Times == {0}                  \* int(time.time()) readings
Clocks == {0, 1}              \* int(time.time()) readings of two replays
StakeUnits == {1, 2}          \* min_stake_unit arguments
Fractions == {<<1, 2>>, <<1, 1>>}   \* slash fractions in (0, 1]
NoData == 0 - 1               \* key absent from tx.data
Hashes == {"h1", "h2"}
ZeroHash == "0"
DefaultHash == ""             \* Block.hash before sign() has set it

\* TxType (models.py 17-26)
TxType == {"transfer", "stake", "unstake", "delegate", "undelegate",
           "vote", "create_validator", "edit_validator"}

\* Transaction (models.py 36-49): the fields the ledger reads.  signed is
\* whether signature verifies against the payload under sender_pubkey.
Tx(s, n, ty, am, rc, fe, cm, ms, sg) ==
    [sender |-> s, nonce |-> n, tx_type |-> ty, amount |-> am,
     recipient |-> rc, fee |-> fe, commission_rate |-> cm,
     min_self_stake |-> ms, signed |-> sg]

\* tx.data of a CREATE_VALIDATOR: <<commission_rate, min_self_stake>>
CreateData == {<<NoData, NoData>>, <<200, NoData>>, <<NoData, 0>>}
\* tx.data of an EDIT_VALIDATOR
EditData == {<<NoData, NoData>>, <<5, NoData>>, <<200, NoData>>}

\* The signed transactions of the given types, amounts and nonces.  A field
\* a handler never reads is held at its default.
TransactionsOf(types, amounts, nonces) ==
    LET Base(ty, ams, rcs, data) ==
            IF ty \notin types THEN {}
            ELSE { Tx(s, n, ty, am, rc, fe, d[1], d[2], TRUE) :
                     s \in Addrs, n \in nonces, am \in ams, rc \in rcs,
                     fe \in Fees, d \in data }
        NoTxData == {<<NoData, NoData>>}
    IN       Base("transfer", amounts, Addrs \cup {None}, NoTxData)
       \cup  Base("stake", amounts, {None}, NoTxData)
       \cup  Base("unstake", amounts, {None}, NoTxData)
       \cup  Base("delegate", amounts, Addrs \cup {None}, NoTxData)
       \cup  Base("undelegate", amounts, Addrs \cup {None}, NoTxData)
       \cup  Base("create_validator", amounts, {None}, CreateData)
       \cup  Base("edit_validator", {0}, {None}, EditData)
       \cup  Base("vote", {0}, {None}, NoTxData)

\* The same transactions with a signature that does not verify.
Unsigned(txs) == { [tx EXCEPT !.signed = FALSE] : tx \in txs }

\* A key pair is named by the address of its holder: KeyPair.address
\* (crypto.py 61-63) of the pair held by a is a.
KeyPairs == Addrs

\* KeyPair.public_key_hex (crypto.py 65-67)
public_key_hex(keypair) == <<"public_key", keypair>>

\* address_from_public_key (crypto.py 106-108): the address of the holder of
\* the key.
address_from_public_key(public_key) == public_key[2]

\* Transaction.sign (models.py 87-99): a new transaction that carries the
\* public key of the signing pair and its signature over the payload with that
\* key in it, which verifies under that key.
transaction_sign(tx, keypair) ==
    [sender |-> tx.sender, nonce |-> tx.nonce, tx_type |-> tx.tx_type,
     amount |-> tx.amount, recipient |-> tx.recipient, fee |-> tx.fee,
     commission_rate |-> tx.commission_rate,
     min_self_stake |-> tx.min_self_stake,
     sender_pubkey |-> public_key_hex(keypair), signed |-> TRUE]

\* Every transaction the ledger is offered.
Transactions ==
    LET T == TransactionsOf(TxType, SmallAmounts, 0..(MaxApplied - 1))
    IN T \cup Unsigned({ tx \in T : tx.tx_type = "transfer" /\ tx.amount = 1 })

\* The transactions offered to the chain driver: a stake, an unstake and a
\* paid transfer by A.
ChainTransactions ==
    { tx \in TransactionsOf({"transfer", "stake", "unstake"}, {1},
                            0..(MaxBlockTxs - 1)) :
        /\ tx.sender = "A"
        /\ tx.tx_type = "transfer" => tx.recipient = "B" /\ tx.fee = 1
        /\ tx.tx_type = "stake" => tx.fee = 0 /\ tx.nonce = 0
        /\ tx.tx_type = "unstake" => tx.fee = 0 /\ tx.nonce > 0 }

\* The sequences over S of length at most n.
RECURSIVE SeqsUpTo(_, _)
SeqsUpTo(S, n) ==
    IF n = 0 THEN {<<>>}
    ELSE LET shorter == SeqsUpTo(S, n - 1)
         IN shorter \cup { Append(q, x) : q \in shorter, x \in S }

\* The transactions applied in the staking and the delegation scenario.
MaxScenario == MaxApplied + 1

\* The transactions of the staking scenario.
StakingTransactions ==
    TransactionsOf({"stake", "unstake", "create_validator"}, Amounts,
                   0..(MaxScenario - 1))

\* The transactions of the delegation scenario.
DelegationTransactions ==
    TransactionsOf({"create_validator", "delegate", "undelegate"}, Amounts,
                   0..(MaxScenario - 1))

Min(a, b) == IF a <= b THEN a ELSE b

\* int(x * fraction): Python's int() truncates toward zero.
IntMul(x, f) ==
    IF x >= 0 THEN (x * f[1]) \div f[2] ELSE 0 - (((0 - x) * f[1]) \div f[2])

\* The sum of the amount fields of a sequence of records.
RECURSIVE SumAmounts(_)
SumAmounts(s) == IF s = <<>> THEN 0 ELSE Head(s).amount + SumAmounts(Tail(s))

\* The sum of f[x] over x in S.
RECURSIVE SumFun(_, _)
SumFun(f, S) ==
    IF S = {} THEN 0
    ELSE LET x == CHOOSE y \in S : TRUE IN f[x] + SumFun(f, S \ {x})

\* ------------------------------------------------------------- variables
VARIABLES
    ledger,       \* Ledger: accounts, validators, delegations, unbonding
    blocks,       \* Blockchain.blocks
    pending_transactions,   \* Blockchain.pending_transactions
    storage,      \* PersistentStorage: block, index, state and metadata keys
    consensus,    \* ProofOfStake.validators
    rotation,     \* ProofOfStake: the key order of validators, validator_rotation
    slashing,     \* SlashingManager: the (validator, height, hash) it has seen
    finality,     \* FinalityManager.state
    commit,       \* the add_block call in progress, if any: its block and step
    applied,      \* history: per sender, the nonces of its applied transactions
    marked,       \* history: the applied transaction that was remembered, if any
    replay,       \* history: what offering the remembered transaction again did
    minted,       \* history: total credited by apply_block_reward
    burned        \* history: total returned by slash_validator

vars == <<ledger, blocks, pending_transactions, storage, consensus, rotation,
          slashing, finality, commit, applied, marked, replay, minted, burned>>

\* ------------------------------------------------------------ the ledger
\* Account (ledger.py 21-26)
Account(b, n, s) == [balance |-> b, nonce |-> n, staked |-> s]

\* ValidatorInfo (models.py 121-133)
ValidatorInfo(a, st, ds, cr, now) ==
    [address |-> a, stake |-> st, delegated_stake |-> ds, commission_rate |-> cr,
     jailed |-> FALSE, jailed_until |-> 0, created_at |-> now]

\* A total that leaves the delegated stake out.
SelfStakeOnly(v) == v.stake

total_stake(v) == v.stake + v.delegated_stake

\* Delegation (models.py 153-159); the table keeps dict insertion order.
Delegation(d, v, am, now) ==
    [delegator |-> d, validator |-> v, amount |-> am, created_at |-> now]

\* UnbondingEntry (models.py 169-176)
UnbondingEntry(a, v, am, ch, now) ==
    [address |-> a, validator |-> v, amount |-> am, completion_height |-> ch,
     created_at |-> now]

\* ValidatorInfo.is_active (models.py 139-143)
is_active(v, current_height, least_stake) ==
    IF v.jailed /\ current_height < v.jailed_until THEN FALSE
    ELSE total_stake(v) >= least_stake

\* An entry that matures one block late.
is_mature_after(entry, current_height) ==
    current_height > entry.completion_height

is_mature(entry, current_height) == current_height >= entry.completion_height

\* Ledger.__init__ (ledger.py 42-50): self.accounts is a defaultdict(Account)
\* and the two caches are None.  accounts gives every address the Account its
\* entry holds, or the Account() a defaultdict makes for it; account_keys is
\* the set of addresses that have an entry, default_factory whether accounts
\* is a defaultdict; a cache is <<>> for None and <<value>> otherwise.
Ledger(accounts, account_keys) ==
    [accounts |-> accounts,
     validators |-> <<>>,
     delegations |-> <<>>,
     unbonding |-> <<>>,
     account_keys |-> account_keys,
     default_factory |-> TRUE,
     cached_total_supply |-> <<>>,
     cached_total_staked |-> <<>>]

\* The ledger with the genesis balances set on it.
GenesisLedger ==
    Ledger([a \in Addrs |-> Account(GenesisBalance[a], 0, 0)], Addrs)

\* self.accounts[address] raises KeyError: a plain dict without the key.
Missing(L, address) == ~L.default_factory /\ address \notin L.account_keys

\* self.accounts[address] on a key that is there, or that the defaultdict
\* makes an entry for.
Touch(L, address) == [L EXCEPT !.account_keys = @ \cup {address}]

has_sufficient_balance(L, address, amount) ==
    L.accounts[address].balance >= amount

AddBalance(L, a, d) ==
    [Touch(L, a) EXCEPT !.accounts[a].balance = @ + d]

AddStaked(L, a, d) ==
    [Touch(L, a) EXCEPT !.accounts[a].staked = @ + d]

\* Ledger.clone (ledger.py 77-96): a new Ledger whose accounts is the plain
\* dict of copies built by the comprehension, and whose caches are None.
clone(L) ==
    [L EXCEPT !.default_factory = FALSE,
              !.cached_total_supply = <<>>, !.cached_total_staked = <<>>]

\* Ledger.get_balance (ledger.py 99-101), which Blockchain.get_balance
\* (blockchain.py 152-154) returns: the value, or the KeyError, and the
\* ledger after the lookup.
get_balance(L, address) ==
    IF Missing(L, address)
    THEN [err |-> "KeyError", value |-> NoData, ledger |-> L]
    ELSE [err |-> "ok", value |-> L.accounts[address].balance,
          ledger |-> Touch(L, address)]

\* ledger.py 160-162: both caches are invalidated
InvalidateCaches(L) ==
    [L EXCEPT !.cached_total_supply = <<>>, !.cached_total_staked = <<>>]

\* ledger.py 386 and 433: self._total_supply = None
InvalidateSupply(L) == [L EXCEPT !.cached_total_supply = <<>>]

\* Ledger.total_supply (ledger.py 389-396): the value returned and the
\* ledger after the call.
total_supply(L) ==
    LET computed == SumFun([a \in Addrs |-> L.accounts[a].balance
                                              + L.accounts[a].staked], Addrs)
        cached == IF L.cached_total_supply = <<>> THEN computed
                  ELSE L.cached_total_supply[1]
    IN [value |-> cached,
        ledger |-> [L EXCEPT !.cached_total_supply = <<cached>>]]

\* Ledger.total_staked (ledger.py 398-405)
total_staked(L) ==
    LET computed == SumFun([v \in DOMAIN L.validators |->
                                total_stake(L.validators[v])],
                           DOMAIN L.validators)
        cached == IF L.cached_total_staked = <<>> THEN computed
                  ELSE L.cached_total_staked[1]
    IN [value |-> cached,
        ledger |-> [L EXCEPT !.cached_total_staked = <<cached>>]]

\* The position of key (d, v) in the delegations table, 0 when absent.
DelegationIndex(L, d, v) ==
    LET I == { i \in 1..Len(L.delegations) :
                 L.delegations[i].delegator = d /\ L.delegations[i].validator = v }
    IN IF I = {} THEN 0 ELSE CHOOSE i \in I : TRUE

\* A table that keeps the entry it is asked to delete.
KeepAt(s, i) == s

RemoveAt(s, i) == SubSeq(s, 1, i - 1) \o SubSeq(s, i + 1, Len(s))

\* A handler's outcome: the error kind raised ("ok" when none) and the ledger
\* as the handler leaves it.
Raise(kind, L) == [err |-> kind, ledger |-> L]
Ok(L) == [err |-> "ok", ledger |-> L]

\* ------------------------------------------------------ Ledger.snapshot
\* sorted() over addresses: the addresses in ascending order.
AddrsSorted == <<"A", "B">>

\* sorted(self.delegations.items()) (ledger.py 65-66): the delegations by
\* ascending key (delegator, validator).
SortedDelegations(L) ==
    LET keys == [k \in 1..(Len(AddrsSorted) * Len(AddrsSorted)) |->
                    <<AddrsSorted[((k - 1) \div Len(AddrsSorted)) + 1],
                      AddrsSorted[((k - 1) % Len(AddrsSorted)) + 1]>>]
        present == SelectSeq(keys,
                       LAMBDA key : DelegationIndex(L, key[1], key[2]) # 0)
    IN [i \in 1..Len(present) |->
            L.delegations[DelegationIndex(L, present[i][1], present[i][2])]]

\* Ledger.snapshot (ledger.py 52-71): the accounts that are not empty and the
\* validators by address, the delegations by sorted key, the unbonding
\* entries in list order; each record with all its fields.
snapshot(L) ==
    [accounts |->
         [a \in { x \in Addrs : \/ L.accounts[x].balance > 0
                                \/ L.accounts[x].nonce > 0
                                \/ L.accounts[x].staked > 0 } |-> L.accounts[a]],
     validators |-> L.validators,
     delegations |-> SortedDelegations(L),
     unbonding |-> L.unbonding]

\* Ledger.state_root (ledger.py 73-75): the hash of the snapshot's canonical
\* JSON, which is one-to-one on snapshots short of a SHA3-256 collision.
state_root(L) == <<"sha3_256", snapshot(L)>>

\* ---------------------------------------------- Ledger.apply_transaction
\* Transaction.txid (models.py 78-80): the hash of the payload, which is
\* every field but the signature.
txid(tx) ==
    <<"sha3_256", tx.sender, tx.nonce, tx.tx_type, tx.amount, tx.recipient,
      tx.fee, tx.commission_rate, tx.min_self_stake>>

\* Transaction.verify_signature (models.py 101-109)
verify_signature(tx) == tx.signed

\* A nonce check that lets an old nonce through.
NonceAtMost(L, tx) == tx.nonce <= L.accounts[tx.sender].nonce

\* ledger.py 123: the nonce check
NonceMatches(L, tx) == L.accounts[tx.sender].nonce = tx.nonce

\* A nonce that skips a value.
IncrementNonceTwice(L, sender) == [L EXCEPT !.accounts[sender].nonce = @ + 2]

\* ledger.py 158: self.accounts[tx.sender].nonce += 1
IncrementNonce(L, sender) == [L EXCEPT !.accounts[sender].nonce = @ + 1]

\* _apply_transfer (ledger.py 164-176)
apply_transfer(L, tx) ==
    IF tx.recipient = None THEN Raise("InvalidRecipient", L)
    ELSE IF tx.amount < 0 THEN Raise("PolicyViolation", L)
    ELSE IF ~has_sufficient_balance(L, tx.sender, tx.amount)
         THEN Raise("InsufficientBalance", L)
    ELSE LET L1 == AddBalance(L, tx.sender, 0 - tx.amount)
         IN IF Missing(L1, tx.recipient) THEN Raise("KeyError", L1)
            ELSE Ok(AddBalance(L1, tx.recipient, tx.amount))

\* ledger.py 193-194 and 207-208: the validator record follows the account's
\* staked amount when the sender is a validator.
AddValidatorStake(L, a, d) ==
    IF a \in DOMAIN L.validators
    THEN [L EXCEPT !.validators[a].stake = @ + d]
    ELSE L

\* _apply_stake (ledger.py 178-194)
apply_stake(L, tx, min_stake_unit) ==
    IF tx.amount <= 0 THEN Raise("PolicyViolation", L)
    ELSE IF tx.amount % min_stake_unit # 0 THEN Raise("PolicyViolation", L)
    ELSE IF ~has_sufficient_balance(L, tx.sender, tx.amount)
         THEN Raise("InsufficientBalance", L)
    ELSE Ok(AddValidatorStake(
                AddStaked(AddBalance(L, tx.sender, 0 - tx.amount),
                          tx.sender, tx.amount),
                tx.sender, tx.amount))

\* _apply_unstake (ledger.py 196-221)
apply_unstake(L, tx, current_height, now) ==
    IF tx.amount <= 0 THEN Raise("PolicyViolation", L)
    ELSE IF L.accounts[tx.sender].staked < tx.amount
         THEN Raise("InsufficientStake", L)
    ELSE LET L1 == AddValidatorStake(AddStaked(L, tx.sender, 0 - tx.amount),
                                     tx.sender, 0 - tx.amount)
             completion_height == current_height + unbonding_blocks
             unbonding_entry == UnbondingEntry(tx.sender, None, tx.amount,
                                               completion_height, now)
         IN Ok([L1 EXCEPT !.unbonding = Append(@, unbonding_entry)])

\* A validator record that does not follow its delegations.
KeepDelegatedStake(L, v, d) == L

\* ledger.py 249, 268 and 357: validator.delegated_stake += / -= amount
AddDelegatedStake(L, v, d) ==
    [L EXCEPT !.validators[v].delegated_stake = @ + d]

\* _apply_delegate (ledger.py 223-249)
apply_delegate(L, tx, now) ==
    IF tx.recipient = None THEN Raise("InvalidRecipient", L)
    ELSE IF tx.recipient \notin DOMAIN L.validators
         THEN Raise("UnknownValidator", L)
    ELSE IF tx.amount <= 0 THEN Raise("PolicyViolation", L)
    ELSE IF ~has_sufficient_balance(L, tx.sender, tx.amount)
         THEN Raise("InsufficientBalance", L)
    ELSE LET L1 == AddBalance(L, tx.sender, 0 - tx.amount)
             i == DelegationIndex(L1, tx.sender, tx.recipient)
             L2 == IF i # 0
                   THEN [L1 EXCEPT !.delegations[i].amount = @ + tx.amount]
                   ELSE [L1 EXCEPT !.delegations =
                            Append(@, Delegation(tx.sender, tx.recipient,
                                                 tx.amount, now))]
         IN Ok(AddDelegatedStake(L2, tx.recipient, tx.amount))

\* ledger.py 270-271: "Return funds immediately (in production: unbonding
\* period)"
ReturnUndelegated(L, tx) == AddBalance(L, tx.sender, tx.amount)

\* _apply_undelegate (ledger.py 251-271)
apply_undelegate(L, tx) ==
    IF tx.recipient = None THEN Raise("InvalidRecipient", L)
    ELSE LET i == DelegationIndex(L, tx.sender, tx.recipient) IN
         IF i = 0 THEN Raise("PolicyViolation", L)
         ELSE IF L.delegations[i].amount < tx.amount
              THEN Raise("InsufficientStake", L)
         ELSE LET L1 == [L EXCEPT !.delegations[i].amount = @ - tx.amount]
                  L2 == IF L1.delegations[i].amount = 0
                        THEN [L1 EXCEPT !.delegations = RemoveAt(@, i)]
                        ELSE L1
              IN Ok(ReturnUndelegated(
                        AddDelegatedStake(L2, tx.recipient, 0 - tx.amount), tx))

\* ledger.py 280 and 313: 0 <= commission_rate <= 1, in percent
ValidCommission(c) == 0 <= c /\ c <= 100

\* ledger.py 295-301: the new validator's record
NewValidator(L, tx, commission_rate, now) ==
    ValidatorInfo(tx.sender, tx.amount, 0, commission_rate, now)

\* _apply_create_validator (ledger.py 273-301)
apply_create_validator(L, tx, min_stake_unit, now) ==
    IF tx.sender \in DOMAIN L.validators THEN Raise("DuplicateValidator", L)
    ELSE LET commission_rate == IF tx.commission_rate = NoData
                                THEN DefaultCommission ELSE tx.commission_rate
             min_self_stake == IF tx.min_self_stake = NoData
                               THEN min_stake_unit ELSE tx.min_self_stake
         IN IF ~ValidCommission(commission_rate)
            THEN Raise("InvalidCommission", L)
            ELSE IF tx.amount < min_self_stake THEN Raise("PolicyViolation", L)
            ELSE IF ~has_sufficient_balance(L, tx.sender, tx.amount)
                 THEN Raise("InsufficientBalance", L)
            ELSE LET L1 == AddStaked(AddBalance(L, tx.sender, 0 - tx.amount),
                                     tx.sender, tx.amount)
                 IN Ok([L1 EXCEPT !.validators =
                           (tx.sender :> NewValidator(L1, tx, commission_rate, now))
                           @@ @])

\* _apply_edit_validator (ledger.py 303-315)
apply_edit_validator(L, tx) ==
    IF tx.sender \notin DOMAIN L.validators THEN Raise("UnknownValidator", L)
    ELSE IF tx.commission_rate = NoData THEN Ok(L)
    ELSE IF ~ValidCommission(tx.commission_rate)
         THEN Raise("InvalidCommission", L)
    ELSE Ok([L EXCEPT !.validators[tx.sender].commission_rate =
                 tx.commission_rate])

\* ledger.py 139-155: the dispatch on tx.tx_type
Dispatch(L, tx, min_stake_unit, current_height, now) ==
    CASE tx.tx_type = "transfer" -> apply_transfer(L, tx)
      [] tx.tx_type = "stake" -> apply_stake(L, tx, min_stake_unit)
      [] tx.tx_type = "unstake" -> apply_unstake(L, tx, current_height, now)
      [] tx.tx_type = "delegate" -> apply_delegate(L, tx, now)
      [] tx.tx_type = "undelegate" -> apply_undelegate(L, tx)
      [] tx.tx_type = "create_validator" ->
             apply_create_validator(L, tx, min_stake_unit, now)
      [] tx.tx_type = "edit_validator" -> apply_edit_validator(L, tx)
      [] OTHER -> Raise("UnknownTxType", L)

\* Ledger.apply_transaction (ledger.py 116-162).  An exception leaves the
\* ledger as it is at the raise.
apply_transaction(L, tx, min_stake_unit, current_height, now) ==
    IF ~verify_signature(tx) THEN Raise("InvalidSignature", L)
    ELSE IF Missing(L, tx.sender) THEN Raise("KeyError", L)
    ELSE LET L0 == Touch(L, tx.sender) IN
    IF ~NonceMatches(L0, tx) THEN Raise("NonceMismatch", L0)
    ELSE IF tx.fee < 0 THEN Raise("PolicyViolation", L0)
    ELSE IF ~has_sufficient_balance(L0, tx.sender, tx.fee)
         THEN Raise("InsufficientBalance", L0)
    ELSE LET L1 == AddBalance(L0, tx.sender, 0 - tx.fee)
             r == Dispatch(L1, tx, min_stake_unit, current_height, now)
         IN IF r.err # "ok" THEN r
            ELSE Ok(InvalidateCaches(IncrementNonce(r.ledger, tx.sender)))

\* ------------------------------------------ the other ledger operations
\* ledger.py 349-362: the loop over list(self.delegations.items()), from
\* entry i on; acc holds the table as rebuilt so far and the amount taken.
RECURSIVE SlashDelegations(_, _, _, _, _, _)
SlashDelegations(items, i, validator_addr, fraction, remaining_slash, acc) ==
    IF i > Len(items) THEN acc
    ELSE LET delegation == items[i] IN
         IF delegation.validator # validator_addr
         THEN SlashDelegations(items, i + 1, validator_addr, fraction,
                  remaining_slash,
                  [acc EXCEPT !.delegations = Append(@, delegation)])
         ELSE LET delegation_slash ==
                      Min(remaining_slash, IntMul(delegation.amount, fraction))
                  amount == delegation.amount - delegation_slash
              IN SlashDelegations(items, i + 1, validator_addr, fraction,
                     remaining_slash - delegation_slash,
                     [delegations |->
                          IF amount = 0 THEN acc.delegations
                          ELSE Append(acc.delegations,
                                      [delegation EXCEPT !.amount = amount]),
                      slashed |-> acc.slashed + delegation_slash])

\* Ledger.slash_validator (ledger.py 328-364): the amount returned and the
\* ledger after the call.
slash_validator(L, validator_addr, fraction) ==
    IF validator_addr \notin DOMAIN L.validators
    THEN [amount |-> 0, ledger |-> L]
    ELSE LET validator == L.validators[validator_addr]
             slash_amount == IntMul(total_stake(validator), fraction)
         IN IF slash_amount <= 0 THEN [amount |-> 0, ledger |-> L]
            ELSE LET self_slash == Min(slash_amount, validator.stake)
                     L1 == AddStaked(AddValidatorStake(L, validator_addr,
                                                       0 - self_slash),
                                     validator_addr, 0 - self_slash)
                     remaining_slash == slash_amount - self_slash
                     r == IF remaining_slash > 0 /\ validator.delegated_stake > 0
                          THEN SlashDelegations(L1.delegations, 1,
                                   validator_addr, fraction, remaining_slash,
                                   [delegations |-> <<>>, slashed |-> 0])
                          ELSE [delegations |-> L1.delegations, slashed |-> 0]
                 IN [amount |-> slash_amount,
                     ledger |-> AddDelegatedStake(
                                    [L1 EXCEPT !.delegations = r.delegations],
                                    validator_addr, 0 - r.slashed)]

\* Ledger.jail_validator (ledger.py 366-371)
jail_validator(L, validator_addr, until_height) ==
    IF validator_addr \in DOMAIN L.validators
    THEN [L EXCEPT !.validators[validator_addr].jailed = TRUE,
                   !.validators[validator_addr].jailed_until = until_height]
    ELSE L

\* Ledger.apply_block_reward (ledger.py 381-386)
apply_block_reward(L, proposer, reward, fees) ==
    LET total_reward == reward + fees
    IN IF total_reward > 0 /\ ~Missing(L, proposer)
       THEN InvalidateSupply(AddBalance(L, proposer, total_reward))
       ELSE L

\* ledger.py 421-425: the credit of every mature entry, from entry i on
RECURSIVE CreditMature(_, _, _)
CreditMature(L, i, current_height) ==
    IF i > Len(L.unbonding) THEN L
    ELSE LET entry == L.unbonding[i]
         IN CreditMature(
                IF is_mature(entry, current_height)
                THEN AddBalance(L, entry.address, entry.amount) ELSE L,
                i + 1, current_height)

\* Ledger.process_mature_unbonding (ledger.py 414-435): the count returned
\* and the ledger after the call.  list.remove takes out the first entry
\* equal to each completed one; equal entries mature together, so the entries
\* left are the immature ones, in order.
process_mature_unbonding(L, current_height) ==
    LET Immature(entry) == ~is_mature(entry, current_height)
        L1 == CreditMature(L, 1, current_height)
        left == SelectSeq(L.unbonding, Immature)
        L2 == [L1 EXCEPT !.unbonding = left]
    IN [count |-> Len(L.unbonding) - Len(left),
        ledger |-> IF Len(left) < Len(L.unbonding)
                   THEN InvalidateSupply(L2) ELSE L2]

\* ------------------------------------------------------ ProofOfStake
\* Validator (pos.py 12-20)
Validator(a, st) ==
    [address |-> a, stake |-> st, is_active |-> TRUE, total_blocks |-> 0]

\* ProofOfStake.add_validator (pos.py 41-51): the registry after the call
add_validator(C, address, stake) ==
    IF stake >= min_stake THEN (address :> Validator(address, stake)) @@ C ELSE C

\* [address] * weight
RECURSIVE Repeat(_, _)
Repeat(x, n) == IF n <= 0 THEN <<>> ELSE <<x>> \o Repeat(x, n - 1)

\* pos.py 59: weight = max(1, validator.stake // self.min_stake)
Weight(stake) == IF stake \div min_stake >= 1 THEN stake \div min_stake ELSE 1

\* ProofOfStake._update_rotation (pos.py 53-60): the rotation built over
\* self.validators.values(), that is in the key order of the dict, from
\* key i on.
RECURSIVE update_rotation(_, _, _)
update_rotation(C, keys, i) ==
    IF i > Len(keys) THEN <<>>
    ELSE (IF C[keys[i]].is_active
          THEN Repeat(C[keys[i]].address, Weight(C[keys[i]].stake))
          ELSE <<>>)
           \o update_rotation(C, keys, i + 1)

\* pos.py 44-49: the key order and the rotation after add_validator; a key
\* that is assigned again keeps its place in the dict.
add_validator_rotation(C, R, address, stake) ==
    IF stake >= min_stake
    THEN LET keys == IF address \in DOMAIN C THEN R.keys
                     ELSE Append(R.keys, address)
         IN [keys |-> keys,
             validator_rotation |->
                 update_rotation(add_validator(C, address, stake), keys, 1)]
    ELSE R

\* ProofOfStake.select_proposer (pos.py 62-72); digest is
\* int(sha256(f"{height}{seed}").hexdigest(), 16).
select_proposer(R, digest) ==
    IF R.validator_rotation = <<>> THEN None
    ELSE R.validator_rotation[(digest % Len(R.validator_rotation)) + 1]

\* ProofOfStake.record_block (pos.py 82-86)
record_block(C, validator_address) ==
    IF validator_address \in DOMAIN C
    THEN [C EXCEPT ![validator_address].total_blocks = @ + 1]
    ELSE C

\* ------------------------------------------------------ the finality tracker
\* Vote (finality.py 14-24)
Vote(bh, h, v, ts) ==
    [block_hash |-> bh, block_height |-> h, validator |-> v, timestamp |-> ts]

\* dataclass equality, on every field.
SameFields(v, w) == v = w

\* Vote.__eq__ and __hash__ (finality.py 26-33)
SameVote(v, w) == v.block_hash = w.block_hash /\ v.validator = w.validator

\* FinalityState (finality.py 36-55) as FinalityManager(finality_depth,
\* supermajority_threshold) builds it; the threshold 0.67 is <<67, 100>>.
FinalityState ==
    [votes_by_block |-> <<>>, finalized_blocks |-> <<>>,
     latest_finalized_height |-> 0 - 1, finality_depth |-> finality_depth,
     supermajority_threshold |-> <<67, 100>>]

\* FinalityState.add_vote (finality.py 57-82): what it returns and the state
\* after the call.
add_vote(F, vote, network_stake, validator_stake) ==
    LET votes == IF vote.block_hash \in DOMAIN F.votes_by_block
                 THEN F.votes_by_block[vote.block_hash] ELSE {}
    IN IF \E w \in votes : SameVote(vote, w)
       THEN [result |-> FALSE, state |-> F]
       ELSE [result |-> TRUE,
             state |-> [F EXCEPT !.votes_by_block =
                            (vote.block_hash :> (votes \cup {vote})) @@ @]]

\* sum(validators.get(vote.validator, 0) for vote in votes)
RECURSIVE VotedStake(_, _)
VotedStake(votes, validators) ==
    IF votes = {} THEN 0
    ELSE LET vote == CHOOSE w \in votes : TRUE
         IN (IF vote.validator \in DOMAIN validators
             THEN validators[vote.validator] ELSE 0)
              + VotedStake(votes \ {vote}, validators)

\* A majority by the number of voters instead of their stake.
has_head_count(F, block_hash, validators) ==
    /\ block_hash \in DOMAIN F.votes_by_block
    /\ Cardinality(F.votes_by_block[block_hash]) * F.supermajority_threshold[2]
         >= F.supermajority_threshold[1] * Cardinality(DOMAIN validators)

\* FinalityState.has_supermajority (finality.py 84-115); voted / total >=
\* threshold on floats decides as the exact comparison does.
has_supermajority(F, block_hash, validators) ==
    IF block_hash \notin DOMAIN F.votes_by_block THEN FALSE
    ELSE LET voted_stake == VotedStake(F.votes_by_block[block_hash], validators)
             stake_total == SumFun(validators, DOMAIN validators)
         IN IF stake_total = 0 THEN FALSE
            ELSE voted_stake * F.supermajority_threshold[2]
                   >= F.supermajority_threshold[1] * stake_total

\* A finalized height that follows the last block finalized.
LastFinalized(old, block_height) == block_height

\* finality.py 148: max(self.latest_finalized_height, block_height)
AdvanceFinalized(old, block_height) ==
    IF block_height > old THEN block_height ELSE old

\* The function f without key k.
Without(f, k) == [x \in DOMAIN f \ {k} |-> f[x]]

\* FinalityState.try_finalize_block (finality.py 117-157)
try_finalize_block(F, block_hash, block_height, current_height, validators) ==
    IF block_height \in DOMAIN F.finalized_blocks
    THEN [result |-> FALSE, state |-> F]
    ELSE IF current_height - block_height < F.finality_depth
    THEN [result |-> FALSE, state |-> F]
    ELSE IF ~has_supermajority(F, block_hash, validators)
    THEN [result |-> FALSE, state |-> F]
    ELSE [result |-> TRUE,
          state |->
            [F EXCEPT !.finalized_blocks = (block_height :> block_hash) @@ @,
                      !.latest_finalized_height =
                          AdvanceFinalized(@, block_height),
                      !.votes_by_block = Without(@, block_hash)]]

\* FinalityState.can_reorg_to (finality.py 177-188)
can_reorg_to(F, fork_height) == fork_height > F.latest_finalized_height

\* FinalityManager.process_block (finality.py 255-280): the loop over
\* range(min_height, current_height) from height on.
RECURSIVE FinalizeFrom(_, _, _, _, _, _)
FinalizeFrom(F, block_hash, height, current_height, validators, finalized) ==
    IF height >= current_height THEN [result |-> finalized, state |-> F]
    ELSE LET r == IF height \notin DOMAIN F.finalized_blocks
                  THEN try_finalize_block(F, block_hash, height, current_height,
                                          validators)
                  ELSE [result |-> FALSE, state |-> F]
         IN FinalizeFrom(r.state, block_hash, height + 1, current_height,
                         validators, finalized \/ r.result)

manager_process_block(F, block_hash, block_height, current_height, validators) ==
    LET d == current_height - F.finality_depth
        min_height == IF d > 0 THEN d ELSE 0
    IN FinalizeFrom(F, block_hash, min_height, current_height, validators,
                    FALSE)

\* FinalityManager.add_vote (finality.py 282-296)
manager_add_vote(F, vote, validators) ==
    add_vote(F, vote, SumFun(validators, DOMAIN validators),
             IF vote.validator \in DOMAIN validators
             THEN validators[vote.validator] ELSE 0)

\* ------------------------------------------------------ the chain driver
\* The block fields the driver reads: block.height, block.prev_hash,
\* block.validator, block.transactions, block.hash.
Block(h, ph, v, txs, hs) ==
    [height |-> h, prev_hash |-> ph, validator |-> v, transactions |-> txs,
     hash |-> hs]

\* Blockchain.get_height (blockchain.py 60-62)
get_height(B) == IF B # <<>> THEN Len(B) - 1 ELSE -1

\* A validation that lets a block skip heights.
validate_block_above(B, C, block) ==
    IF block.height <= get_height(B) THEN FALSE
    ELSE IF B # <<>> /\ block.prev_hash # B[Len(B)].hash THEN FALSE
    ELSE IF block.validator \notin DOMAIN C THEN FALSE
    ELSE IF ~C[block.validator].is_active THEN FALSE
    ELSE TRUE

\* Blockchain._validate_block (blockchain.py 134-150)
validate_block(B, C, block) ==
    IF block.height # get_height(B) + 1 THEN FALSE
    ELSE IF B # <<>> /\ block.prev_hash # B[Len(B)].hash THEN FALSE
    ELSE IF block.validator \notin DOMAIN C THEN FALSE
    ELSE IF ~C[block.validator].is_active THEN FALSE
    ELSE TRUE

\* Block.sign (models.py 242-258): a new block that carries the signature
\* and, in hash, the compute_hash of its header; the block it is called on
\* is left as it was.
sign(block, hs) ==
    [height |-> block.height, prev_hash |-> block.prev_hash,
     validator |-> block.validator, transactions |-> block.transactions,
     hash |-> hs, signed |-> TRUE]

\* Block.verify_signature (models.py 260-268)
block_verify_signature(block) == block.signed

\* Blockchain.add_transaction (blockchain.py 64-69): what it returns and the
\* mempool after the call.
add_transaction(P, tx) ==
    IF verify_signature(tx)
    THEN [result |-> TRUE, pending |-> Append(P, tx)]
    ELSE [result |-> FALSE, pending |-> P]

\* Blockchain.create_block (blockchain.py 71-92): the block is built without
\* a signature and with hash at its default.
create_block(B, P, proposer) ==
    [height |-> get_height(B) + 1,
     prev_hash |-> IF B # <<>> THEN B[Len(B)].hash ELSE ZeroHash,
     validator |-> proposer,
     transactions |-> SubSeq(P, 1, Min(Len(P), block_capacity)),
     hash |-> DefaultHash, signed |-> FALSE]

\* blockchain.py 103: self.ledger.apply_transaction(tx), min_stake_unit and
\* current_height left at their defaults 1 and 0.
ApplyInBlock(L, tx, block, now) == apply_transaction(L, tx, 1, 0, now)

\* blockchain.py 101-106: the loop over block.transactions from entry i on;
\* it works on self.ledger and stops at the first exception.  n counts the
\* transactions applied.
RECURSIVE ApplyBlockTransactions(_, _, _, _, _)
ApplyBlockTransactions(L, block, i, n, now) ==
    IF i > Len(block.transactions)
    THEN [err |-> "ok", ledger |-> L, count |-> n]
    ELSE LET r == ApplyInBlock(L, block.transactions[i], block, now)
         IN IF r.err # "ok"
            THEN [err |-> r.err, ledger |-> r.ledger, count |-> n]
            ELSE ApplyBlockTransactions(r.ledger, block, i + 1, n + 1, now)

\* PersistentStorage.__init__ (storage.py 27-40) on an empty data directory:
\* block_db holds the block:<height> keys and, in meta, the meta:blockchain
\* key; index_db the hash:<hash> keys; state_db the state:current key, in
\* state, and the checkpoint:<name> keys.
EmptyStorage ==
    [block_db |-> <<>>, index_db |-> <<>>, state |-> <<>>, meta |-> <<>>,
     checkpoints |-> <<>>]

\* PersistentStorage.save_block (storage.py 43-57)
save_block(S, block) ==
    [S EXCEPT !.block_db = (block.height :> block) @@ @,
              !.index_db = (block.hash :> block.height) @@ @]

\* PersistentStorage.save_state (storage.py 102-111)
save_state(S, ledger_snapshot) == [S EXCEPT !.state = <<ledger_snapshot>>]

\* PersistentStorage.save_metadata (storage.py 127-135)
save_metadata(S, metadata) == [S EXCEPT !.meta = <<metadata>>]

\* The key of the single state slot (storage.py 105, 116, 158)
StateKey == "state:current"

\* state_db.get(key) for the key of a state: <<value>>, or <<>> when absent
state_db_get(S, key) == IF key = StateKey THEN S.state ELSE <<>>

\* PersistentStorage.create_checkpoint (storage.py 151-163)
create_checkpoint(S, name, height) ==
    [S EXCEPT !.checkpoints =
        (name :> [name |-> name, height |-> height, state_key |-> StateKey])
            @@ @]

\* The state a checkpoint leads to: the value under its state_key.
checkpoint_state(S, name) == state_db_get(S, S.checkpoints[name].state_key)

\* PersistentStorage.load_block (storage.py 59-71): <<block>>, or <<>> for None
load_block(S, height) ==
    IF height \in DOMAIN S.block_db THEN <<S.block_db[height]>> ELSE <<>>

\* Ledger.load_state, which blockchain.py 54 calls and ledger.py does not
\* define: the ledger takes the snapshot's contents.
load_state(L, state) == state

\* blockchain.py 46-49: the blocks found at heights h..last, in order.
RECURSIVE LoadBlocks(_, _, _)
LoadBlocks(S, h, last) ==
    IF h > last THEN <<>>
    ELSE load_block(S, h) \o LoadBlocks(S, h + 1, last)

\* Ledger.get_state, which blockchain.py 120 calls and ledger.py does not
\* define: the snapshot of the ledger.
get_state(L) == L

\* SlashingManager.process_block, which blockchain.py 117 calls: the
\* (validator, height, block_hash) the manager has seen signed.
process_block(M, height, validator, block_hash) ==
    M \cup {<<validator, height, block_hash>>}

\* ------------------------------------------------------------- the state
Init ==
    /\ ledger = GenesisLedger
    /\ blocks = <<>>
    /\ pending_transactions = <<>>
    /\ storage = EmptyStorage
    /\ consensus = <<>>
    /\ rotation = [keys |-> <<>>, validator_rotation |-> <<>>]
    /\ slashing = {}
    /\ finality = FinalityState
    /\ commit = <<>>
    /\ applied = [a \in Addrs |-> <<>>]
    /\ marked = {}
    /\ replay = [err |-> "none", unchanged |-> TRUE]
    /\ minted = 0
    /\ burned = 0

chainVars == <<blocks, pending_transactions, storage, consensus, rotation,
               slashing, finality, commit>>
replayVars == <<marked, replay>>

\* ------------------------------------------------- the ledger's operations
\* ledger.apply_transaction(tx, min_stake_unit, current_height).  With
\* remember, the first transaction applied with success is kept in marked;
\* replay records what the call did when tx is that transaction.
ApplyTransaction(tx, min_stake_unit, current_height, now, remember) ==
    LET r == apply_transaction(ledger, tx, min_stake_unit, current_height, now)
    IN /\ ledger' = r.ledger
       /\ applied' = IF r.err = "ok"
                     THEN [applied EXCEPT ![tx.sender] = Append(@, tx.nonce)]
                     ELSE applied
       /\ marked' = IF remember /\ r.err = "ok" /\ marked = {}
                    THEN {tx} ELSE marked
       /\ replay' = IF tx \in marked
                    THEN [err |-> r.err, unchanged |-> r.ledger = ledger]
                    ELSE replay
       /\ UNCHANGED <<chainVars, minted, burned>>

\* ledger.apply_block_reward(proposer, reward, fees)
ApplyBlockReward(proposer, reward, fees) ==
    /\ minted + reward + fees <= MaxMinted
    /\ ledger' = apply_block_reward(ledger, proposer, reward, fees)
    /\ minted' = minted + reward + fees
    /\ UNCHANGED <<chainVars, replayVars, applied, burned>>

\* ledger.process_mature_unbonding(current_height)
ProcessMatureUnbonding(current_height) ==
    /\ ledger' = process_mature_unbonding(ledger, current_height).ledger
    /\ UNCHANGED <<chainVars, replayVars, applied, minted, burned>>

\* ledger.slash_validator(validator_addr, fraction, reason), while the total
\* returned stays within cap
SlashValidator(validator_addr, fraction, cap) ==
    LET r == slash_validator(ledger, validator_addr, fraction)
    IN /\ burned + r.amount <= cap
       /\ ledger' = r.ledger
       /\ burned' = burned + r.amount
       /\ UNCHANGED <<chainVars, replayVars, applied, minted>>

\* The heights the ledger's callers pass with a transaction, and the heights
\* they pass to process_mature_unbonding: early ones, and ones late enough
\* for an entry queued early to have matured.
TxHeights == {0, 1}
Heights == TxHeights \cup { unbonding_blocks + h : h \in TxHeights }

\* The number of transactions applied with success so far.
Applied == SumFun([a \in Addrs |-> Len(applied[a])], Addrs)

\* ApplyTransaction with the arguments a transaction's type reads, while
\* fewer than cap transactions have been applied.
Apply(txs, remembers, cap) ==
    /\ Applied < cap
    /\ \E tx \in txs, now \in Times, remember \in remembers :
      \E u \in (IF tx.tx_type \in {"stake", "create_validator"}
                THEN StakeUnits ELSE {1}),
         h \in (IF tx.tx_type = "unstake" THEN TxHeights ELSE {0}) :
        ApplyTransaction(tx, u, h, now, remember)

\* Every operation of the ledger, on every transaction type.
Next ==
    \/ Apply(Transactions, {FALSE}, MaxApplied)
    \/ \E a \in Addrs, reward \in Rewards, fees \in Fees :
         ApplyBlockReward(a, reward, fees)
    \/ \E h \in Heights : ProcessMatureUnbonding(h)
    \/ \E a \in Addrs, f \in Fractions : SlashValidator(a, f, MaxBurned)

Spec == Init /\ [][Next]_vars

\* --------------------------------------------- the driver's operations
\* The driver and the components it owns.
Driver ==
    [ledger |-> ledger, blocks |-> blocks,
     pending_transactions |-> pending_transactions, storage |-> storage,
     consensus |-> consensus, slashing |-> slashing]

\* Blockchain.add_block (blockchain.py 94-132): what it returns, the driver
\* after the call and the number of transactions it applied.
add_block(D, block, now) ==
    IF ~validate_block(D.blocks, D.consensus, block)
    THEN [result |-> FALSE, driver |-> D, count |-> 0]
    ELSE LET r == ApplyBlockTransactions(D.ledger, block, 1, 0, now)
         IN IF r.err # "ok"
            THEN [result |-> FALSE, driver |-> [D EXCEPT !.ledger = r.ledger],
                  count |-> r.count]
            ELSE [result |-> TRUE,
                  driver |->
                    [ledger |-> r.ledger,
                     blocks |-> Append(D.blocks, block),
                     consensus |-> record_block(D.consensus, block.validator),
                     slashing |-> process_block(D.slashing, block.height,
                                      block.validator, block.hash),
                     storage |->
                       save_metadata(
                         save_state(save_block(D.storage, block),
                                    get_state(r.ledger)),
                         [height |-> block.height, latest_hash |-> block.hash]),
                     pending_transactions |->
                       SelectSeq(D.pending_transactions,
                           LAMBDA tx : \A i \in 1..Len(block.transactions) :
                                           block.transactions[i] # tx)],
                  count |-> r.count]

\* consensus.add_validator(address, stake)
AddValidator(address, stake) ==
    /\ consensus' = add_validator(consensus, address, stake)
    /\ rotation' = add_validator_rotation(consensus, rotation, address, stake)
    /\ UNCHANGED <<ledger, blocks, pending_transactions, storage, slashing,
                   finality, commit, applied, replayVars, minted, burned>>

\* chain.add_transaction(tx), while the mempool is shorter than cap
AddTransaction(tx, cap) ==
    /\ Len(pending_transactions) < cap
    /\ pending_transactions' = add_transaction(pending_transactions, tx).pending
    /\ UNCHANGED <<ledger, blocks, storage, consensus, rotation, slashing,
                   finality, commit, applied, replayVars, minted, burned>>

\* The nonces of the first n transactions of txs, added to the history.
RECURSIVE RecordApplied(_, _, _)
RecordApplied(ap, txs, n) ==
    IF n = 0 THEN ap
    ELSE LET tx == txs[n]
         IN [RecordApplied(ap, txs, n - 1) EXCEPT ![tx.sender] =
                 Append(@, tx.nonce)]

\* chain.add_block(block)
AddBlock(block, now) ==
    LET r == add_block(Driver, block, now)
    IN /\ Len(blocks) < MaxBlocks
       /\ ledger' = r.driver.ledger
       /\ blocks' = r.driver.blocks
       /\ pending_transactions' = r.driver.pending_transactions
       /\ storage' = r.driver.storage
       /\ consensus' = r.driver.consensus
       /\ slashing' = r.driver.slashing
       /\ applied' = RecordApplied(applied, block.transactions, r.count)
       /\ UNCHANGED <<rotation, finality, commit, replayVars, minted, burned>>

\* Blockchain.add_block (blockchain.py 94-132) statement by statement.  The
\* call in progress is commit[1]: its block and, in pc, the statement that
\* runs next.
Committing(pc) == commit # <<>> /\ commit[1].pc = pc

GoTo(pc) == commit' = <<[commit[1] EXCEPT !.pc = pc]>>

\* blockchain.py 96-109: validation, the loop over the transactions and
\* self.blocks.append(block)
BeginAddBlock(block, now) ==
    LET r == ApplyBlockTransactions(ledger, block, 1, 0, now)
    IN /\ commit = <<>>
       /\ Len(blocks) < MaxBlocks
       /\ validate_block(blocks, consensus, block)
       /\ ledger' = r.ledger
       /\ applied' = RecordApplied(applied, block.transactions, r.count)
       /\ IF r.err = "ok"
          THEN /\ blocks' = Append(blocks, block)
               /\ commit' = <<[block |-> block, pc |-> "block_db"]>>
          ELSE UNCHANGED <<blocks, commit>>
       /\ UNCHANGED <<pending_transactions, storage, consensus, rotation,
                      slashing, finality, replayVars, minted, burned>>

\* storage.py 46-48, in save_block: self.block_db[key] = value
SaveBlockData ==
    /\ Committing("block_db")
    /\ storage' = [storage EXCEPT
                      !.block_db = (commit[1].block.height :> commit[1].block) @@ @]
    /\ GoTo("index_db")
    /\ UNCHANGED <<ledger, blocks, pending_transactions, consensus, rotation,
                   slashing, finality, applied, replayVars, minted, burned>>

\* storage.py 51-52, in save_block: self.index_db[hash_key] = height
SaveBlockIndex ==
    /\ Committing("index_db")
    /\ storage' = [storage EXCEPT
                      !.index_db = (commit[1].block.hash :> commit[1].block.height)
                                      @@ @]
    /\ GoTo("record_block")
    /\ UNCHANGED <<ledger, blocks, pending_transactions, consensus, rotation,
                   slashing, finality, applied, replayVars, minted, burned>>

\* blockchain.py 113: self.consensus.record_block(block.validator)
RecordBlock ==
    /\ Committing("record_block")
    /\ consensus' = record_block(consensus, commit[1].block.validator)
    /\ GoTo("process_block")
    /\ UNCHANGED <<ledger, blocks, pending_transactions, storage, rotation,
                   slashing, finality, applied, replayVars, minted, burned>>

\* blockchain.py 116-117: self.slashing.process_block(...)
ProcessSlashing ==
    /\ Committing("process_block")
    /\ slashing' = process_block(slashing, commit[1].block.height,
                                 commit[1].block.validator, commit[1].block.hash)
    /\ GoTo("save_state")
    /\ UNCHANGED <<ledger, blocks, pending_transactions, storage, consensus,
                   rotation, finality, applied, replayVars, minted, burned>>

\* blockchain.py 120: self.storage.save_state(self.ledger.get_state())
SaveState ==
    /\ Committing("save_state")
    /\ storage' = save_state(storage, get_state(ledger))
    /\ GoTo("save_metadata")
    /\ UNCHANGED <<ledger, blocks, pending_transactions, consensus, rotation,
                   slashing, finality, applied, replayVars, minted, burned>>

\* blockchain.py 121-124: self.storage.save_metadata({...})
SaveMetadata ==
    /\ Committing("save_metadata")
    /\ storage' = save_metadata(storage,
                      [height |-> commit[1].block.height,
                       latest_hash |-> commit[1].block.hash])
    /\ GoTo("remove_processed")
    /\ UNCHANGED <<ledger, blocks, pending_transactions, consensus, rotation,
                   slashing, finality, applied, replayVars, minted, burned>>

\* blockchain.py 127-132: the processed transactions leave the mempool and
\* add_block returns True
RemoveProcessed ==
    /\ Committing("remove_processed")
    /\ pending_transactions' =
           SelectSeq(pending_transactions,
               LAMBDA tx : \A i \in 1..Len(commit[1].block.transactions) :
                               commit[1].block.transactions[i] # tx)
    /\ commit' = <<>>
    /\ UNCHANGED <<ledger, blocks, storage, consensus, rotation, slashing,
                   finality, applied, replayVars, minted, burned>>

\* Blockchain._load_state (blockchain.py 39-54) on a newly built driver: the
\* blocks and the ledger it starts with.
load_chain(S) ==
    IF S.meta = <<>>
    THEN [blocks |-> <<>>, ledger |-> GenesisLedger]
    ELSE LET height == S.meta[1].height
             first == IF height - load_lookback > 0
                      THEN height - load_lookback ELSE 0
         IN [blocks |-> LoadBlocks(S, first, height),
             ledger |-> IF S.state # <<>>
                        THEN load_state(GenesisLedger, S.state[1])
                        ELSE GenesisLedger]

\* The process dies, at any statement, and is started again: storage keeps
\* what was written, Blockchain.__init__ (blockchain.py 25-37) builds the
\* other components anew and calls _load_state.
Crash ==
    /\ blocks' = load_chain(storage).blocks
    /\ ledger' = load_chain(storage).ledger
    /\ pending_transactions' = <<>>
    /\ consensus' = <<>>
    /\ rotation' = [keys |-> <<>>, validator_rotation |-> <<>>]
    /\ slashing' = {}
    /\ finality' = FinalityState
    /\ commit' = <<>>
    /\ UNCHANGED <<storage, applied, replayVars, minted, burned>>

\* The blocks offered to add_block.
BlocksOffered ==
    { Block(h, ph, v, txs, hs) :
        h \in 0..MaxBlocks, ph \in Hashes \cup {ZeroHash}, v \in Addrs,
        txs \in SeqsUpTo(ChainTransactions, MaxBlockTxs), hs \in Hashes }

\* The stakes offered to the registry, in units of min_stake.
RegistryStakes == {0, 1}

\* The chain driver and the proof-of-stake registry it consults.
NextChain ==
    \/ \E a \in Addrs, stake \in RegistryStakes : AddValidator(a, stake)
    \/ \E block \in BlocksOffered, now \in Times : AddBlock(block, now)

SpecChain == Init /\ [][NextChain]_vars

\* The same with the mempool.
NextMempool ==
    \/ NextChain
    \/ \E tx \in ChainTransactions \cup Unsigned(ChainTransactions) :
         AddTransaction(tx, MaxPending)

SpecMempool == Init /\ [][NextMempool]_vars

\* The transactions of the replay scenario.
ReplayTransactions ==
    TransactionsOf({"transfer", "stake"}, SmallAmounts, 0..(MaxApplied - 1))

\* Transfers, stakes and block rewards, one applied transaction being
\* remembered and offered again.
NextReplay ==
    \/ Apply(ReplayTransactions, BOOLEAN, MaxApplied)
    \/ \E a \in Addrs, reward \in Rewards, fees \in Fees :
         ApplyBlockReward(a, reward, fees)

SpecReplay == Init /\ [][NextReplay]_vars

\* STAKE, UNSTAKE and CREATE_VALIDATOR transactions, slashing and maturation.
NextStaking ==
    \/ Apply(StakingTransactions, {FALSE}, MaxScenario)
    \/ \E h \in Heights : ProcessMatureUnbonding(h)
    \/ \E a \in Addrs, f \in Fractions : SlashValidator(a, f, MaxBurned)

SpecStaking == Init /\ [][NextStaking]_vars

\* CREATE_VALIDATOR, DELEGATE and UNDELEGATE transactions and slashing.
NextDelegation ==
    \/ Apply(DelegationTransactions, {FALSE}, MaxScenario)
    \/ \E a \in Addrs, f \in Fractions : SlashValidator(a, f, MaxBurned)

SpecDelegation == Init /\ [][NextDelegation]_vars

\* ------------------------------------------------- the slashing scenario
\* Validator A with self-stake st and delegations of dA from A and dB from B,
\* as CREATE_VALIDATOR and DELEGATE leave them.
SlashLedger(st, dA, dB) ==
    [Ledger([a \in Addrs |-> Account(0, 1, IF a = "A" THEN st ELSE 0)], Addrs)
        EXCEPT
     !.validators = ("A" :> ValidatorInfo("A", st, dA + dB, DefaultCommission, 0)),
     !.delegations =
         (IF dA > 0 THEN <<Delegation("A", "A", dA, 0)>> ELSE <<>>)
           \o (IF dB > 0 THEN <<Delegation("B", "A", dB, 0)>> ELSE <<>>)]

SlashStakes == {0, 1, 1000}          \* self-stakes
SlashDelegated == {0, 1, 400}        \* delegation amounts
SlashFractions == {<<1, 10>>, <<1, 2>>, <<2, 3>>, <<1, 1>>}

InitSlash ==
    /\ ledger \in { SlashLedger(st, dA, dB) :
                       st \in SlashStakes, dA \in SlashDelegated,
                       dB \in SlashDelegated }
    /\ blocks = <<>>
    /\ pending_transactions = <<>>
    /\ storage = EmptyStorage
    /\ consensus = <<>>
    /\ rotation = [keys |-> <<>>, validator_rotation |-> <<>>]
    /\ slashing = {}
    /\ finality = FinalityState
    /\ commit = <<>>
    /\ applied = [a \in Addrs |-> <<>>]
    /\ marked = {}
    /\ replay = [err |-> "none", unchanged |-> TRUE]
    /\ minted = 0
    /\ burned = 0

\* Slashes of a validator with delegations.
NextSlash ==
    \E a \in Addrs, f \in SlashFractions : SlashValidator(a, f, MaxSlashed)

SpecSlash == InitSlash /\ [][NextSlash]_vars

\* ------------------------------------------------- the finality scenario
Voters == {"V1", "V2", "V3"}
\* The validators dicts passed to the tracker: address -> stake.
StakeMaps ==
    { [v \in Voters |-> 100],
      [v \in Voters |-> IF v = "V1" THEN 67 ELSE IF v = "V2" THEN 33 ELSE 0],
      [v \in Voters |-> 0] }
VoteHeights == {0, 4}            \* block_height of a vote or a candidate
CurrentHeights == {3, 6, 7}      \* current_height arguments
Votes ==
    { Vote(bh, h, v, ts) :
        bh \in Hashes, h \in VoteHeights, v \in Voters, ts \in Times }

\* manager.add_vote(vote, validators)
AddVote(vote, validators) ==
    /\ finality' = manager_add_vote(finality, vote, validators).state
    /\ UNCHANGED <<ledger, blocks, pending_transactions, storage, consensus,
                   rotation, slashing, commit, applied, replayVars, minted,
                   burned>>

\* manager.state.try_finalize_block(block_hash, block_height, current_height,
\* validators)
TryFinalizeBlock(block_hash, block_height, current_height, validators) ==
    /\ finality' = try_finalize_block(finality, block_hash, block_height,
                                      current_height, validators).state
    /\ UNCHANGED <<ledger, blocks, pending_transactions, storage, consensus,
                   rotation, slashing, commit, applied, replayVars, minted,
                   burned>>

\* manager.process_block(block_hash, block_height, current_height, validators)
ProcessBlock(block_hash, block_height, current_height, validators) ==
    /\ finality' = manager_process_block(finality, block_hash, block_height,
                                         current_height, validators).state
    /\ UNCHANGED <<ledger, blocks, pending_transactions, storage, consensus,
                   rotation, slashing, commit, applied, replayVars, minted,
                   burned>>

NextFinality ==
    \/ \E vote \in Votes, validators \in StakeMaps : AddVote(vote, validators)
    \/ \E bh \in Hashes, h \in VoteHeights, c \in CurrentHeights,
          validators \in StakeMaps : TryFinalizeBlock(bh, h, c, validators)
    \/ \E bh \in Hashes, h \in VoteHeights, c \in CurrentHeights,
          validators \in StakeMaps : ProcessBlock(bh, h, c, validators)

SpecFinality == Init /\ [][NextFinality]_vars

\* ------------------------------------------- the driver with its tracker
\* The blocks without transactions offered to add_block.
EmptyBlocks == { block \in BlocksOffered : block.transactions = <<>> }

\* The votes for h1 at height 0.
ReorgVotes == { vote \in Votes : vote.block_hash = "h1" /\ vote.block_height = 0 }

\* The chain driver, and its finality tracker (chain.finality) fed with
\* votes and with finalization attempts at the heights its callers report.
NextReorg ==
    \/ \E a \in Addrs, stake \in RegistryStakes : AddValidator(a, stake)
    \/ \E block \in EmptyBlocks, now \in Times : AddBlock(block, now)
    \/ \E vote \in ReorgVotes, validators \in StakeMaps :
         AddVote(vote, validators)
    \/ \E c \in CurrentHeights, validators \in StakeMaps :
         TryFinalizeBlock("h1", 0, c, validators)

SpecReorg == Init /\ [][NextReorg]_vars

\* ------------------------------------------------- the linkage scenario
\* A transfer and a stake by A, each good as A's first transaction.
LinkTransactions == { tx \in ChainTransactions : tx.nonce = 0 }

\* The blocks of at most one transaction offered to add_block.
LinkBlocks ==
    { Block(h, ph, v, txs, hs) :
        h \in 0..(MaxBlocks + 1), ph \in Hashes \cup {ZeroHash}, v \in Addrs,
        txs \in SeqsUpTo(LinkTransactions, 1), hs \in Hashes }

\* The chain driver offered blocks of every height, previous hash and
\* proposer.
NextLink ==
    \/ \E a \in Addrs, stake \in RegistryStakes : AddValidator(a, stake)
    \/ \E block \in LinkBlocks, now \in Times : AddBlock(block, now)

SpecLink == Init /\ [][NextLink]_vars

\* ------------------------------------------------- the commit scenario
\* The blocks offered: those of the linkage scenario whose hash is h1 at
\* height 0 and h2 above, while fewer than MaxApplied transactions have been
\* applied.
CommitBlocks ==
    { block \in LinkBlocks :
        /\ Applied + Len(block.transactions) <= MaxApplied
        /\ block.hash = "h1" <=> block.height = 0 }

\* add_block run statement by statement, with a crash and restart possible
\* between any two statements.
NextCommit ==
    \/ \E a \in Addrs, stake \in RegistryStakes : AddValidator(a, stake)
    \/ \E block \in CommitBlocks, now \in Times : BeginAddBlock(block, now)
    \/ SaveBlockData
    \/ SaveBlockIndex
    \/ RecordBlock
    \/ ProcessSlashing
    \/ SaveState
    \/ SaveMetadata
    \/ RemoveProcessed
    \/ Crash

SpecCommit == Init /\ [][NextCommit]_vars

\* ------------------------------------------------- the checkpoint scenario
\* storage.create_checkpoint(name, height) at the height of the chain
CreateCheckpoint(name) ==
    /\ storage' = create_checkpoint(storage, name, get_height(blocks))
    /\ UNCHANGED <<ledger, blocks, pending_transactions, consensus, rotation,
                   slashing, finality, commit, applied, replayVars, minted,
                   burned>>

CheckpointNames == {"c1", "c2"}

\* The chain driver with checkpoints taken between blocks.
NextCheckpoint ==
    \/ \E a \in Addrs, stake \in RegistryStakes : AddValidator(a, stake)
    \/ \E block \in LinkBlocks, now \in Times : AddBlock(block, now)
    \/ \E name \in CheckpointNames : CreateCheckpoint(name)

SpecCheckpoint == Init /\ [][NextCheckpoint]_vars

\* ------------------------------------------------- the jailing scenario
\* ledger.jail_validator(validator_addr, until_height)
JailValidator(validator_addr, until_height) ==
    /\ ledger' = jail_validator(ledger, validator_addr, until_height)
    /\ UNCHANGED <<chainVars, replayVars, applied, minted, burned>>

\* The CREATE_VALIDATOR transactions that make an address a validator.
JailTransactions ==
    { tx \in TransactionsOf({"create_validator"}, {1}, {0}) :
        tx.fee = 0 /\ tx.commission_rate = NoData /\ tx.min_self_stake = NoData }

\* The until_height arguments of jail_validator.
JailHeights == {1, MaxBlocks + 1}

\* Validators are created in the ledger, registered with the proof-of-stake
\* registry and jailed, and blocks are offered to the driver.
NextJail ==
    \/ Apply(JailTransactions, {FALSE}, MaxApplied)
    \/ \E a \in Addrs, stake \in RegistryStakes : AddValidator(a, stake)
    \/ \E a \in Addrs, until \in JailHeights : JailValidator(a, until)
    \/ \E block \in EmptyBlocks, now \in Times : AddBlock(block, now)

SpecJail == Init /\ [][NextJail]_vars

\* ------------------------------------------------- the proposer scenario
PosAddrs == {"A", "B", "C"}
PosStakes == {0, 1, 2, 3}        \* stakes in units of min_stake
Digests == {0, 1, 2, 3, 4, 5, 7, 11}   \* values of the sha256 digest

\* Registrations with the proof-of-stake registry.
NextPos ==
    \E a \in PosAddrs, stake \in PosStakes : AddValidator(a, stake)

SpecPos == Init /\ [][NextPos]_vars

\* ------------------------------------------------- the restart scenario
\* The hash of the block at a height: two values in turn, so that a block and
\* its predecessor differ.
HashAt(height) == IF height % 2 = 0 THEN "h1" ELSE "h2"

\* The block without transactions that B proposes on a chain of n blocks.
NextEmptyBlock(n) ==
    Block(n, IF n = 0 THEN ZeroHash ELSE HashAt(n - 1), "B", <<>>, HashAt(n))

\* The driver after consensus.add_validator(B, 1) and n calls of add_block,
\* each with the next empty block of B: what add_block (blockchain.py
\* 94-132) has appended, recorded and saved.
ChainOfLength(n) ==
    [ledger |-> GenesisLedger,
     blocks |-> [i \in 1..n |-> NextEmptyBlock(i - 1)],
     pending_transactions |-> <<>>,
     storage |->
        [block_db |-> [h \in 0..(n - 1) |-> NextEmptyBlock(h)],
         index_db |-> [hs \in { HashAt(h) : h \in 0..(n - 1) } |->
                          IF HashAt(n - 1) = hs THEN n - 1 ELSE n - 2],
         state |-> IF n = 0 THEN <<>> ELSE <<get_state(GenesisLedger)>>,
         meta |-> IF n = 0 THEN <<>>
                  ELSE <<[height |-> n - 1, latest_hash |-> HashAt(n - 1)]>>,
         checkpoints |-> <<>>],
     consensus |-> [add_validator(<<>>, "B", 1) EXCEPT !["B"].total_blocks = n],
     slashing |-> { <<"B", h, HashAt(h)>> : h \in 0..(n - 1) }]

\* The chains of the scenario: up to MaxBeyond blocks more than _load_state
\* reads back.
ChainLengths == 0..(load_lookback + 1 + MaxBeyond)

InitRestart ==
    \E n \in ChainLengths :
        LET D == ChainOfLength(n)
        IN /\ ledger = D.ledger
           /\ blocks = D.blocks
           /\ pending_transactions = D.pending_transactions
           /\ storage = D.storage
           /\ consensus = D.consensus
           /\ rotation = add_validator_rotation(<<>>,
                             [keys |-> <<>>, validator_rotation |-> <<>>],
                             "B", 1)
           /\ slashing = D.slashing
           /\ finality = FinalityState
           /\ commit = <<>>
           /\ applied = [a \in Addrs |-> <<>>]
           /\ marked = {}
           /\ replay = [err |-> "none", unchanged |-> TRUE]
           /\ minted = 0
           /\ burned = 0

\* A driver with a chain behind it is stopped and built again, and its
\* validators register again.
NextRestart ==
    \/ Crash
    \/ \E a \in Addrs, stake \in RegistryStakes : AddValidator(a, stake)

SpecRestart == InitRestart /\ [][NextRestart]_vars

\* ------------------------------------------------- the propose loop
\* Node.run_validator (node.py 49-66), one turn of the loop of the node whose
\* address select_proposer returns: the block is created, block.sign(keypair)
\* builds a signed copy that is dropped, and the block itself is handed to
\* add_block.
RunValidator(digest, hs, now) ==
    LET proposer == select_proposer(rotation, digest)
        block == create_block(blocks, pending_transactions, proposer)
        signed_copy == sign(block, hs)
    IN /\ proposer # None
       /\ AddBlock(block, now)

\* The mempool of the propose loop.
MaxMempool == MaxPending + 1

\* The transactions submitted to the node.
NodeTransactions == ChainTransactions \cup Unsigned(ChainTransactions)

\* A validator node: registrations, submissions and the propose loop.
NextNode ==
    \/ \E a \in Addrs, stake \in RegistryStakes : AddValidator(a, stake)
    \/ \E tx \in NodeTransactions : AddTransaction(tx, MaxMempool)
    \/ \E digest \in Digests, hs \in Hashes, now \in Times :
         RunValidator(digest, hs, now)

SpecNode == Init /\ [][NextNode]_vars

\* The propose loop turns for ever (node.py 49: while True).
ProposeLoop ==
    \E digest \in Digests, hs \in Hashes, now \in Times :
        RunValidator(digest, hs, now)

SpecNodeLive == SpecNode /\ WF_vars(ProposeLoop)

\* The block the loop would create now passes validation and is rejected
\* because one of its transactions fails to apply.
RejectsForTransaction ==
    \E digest \in Digests, now \in Times :
        LET proposer == select_proposer(rotation, digest)
            block == create_block(blocks, pending_transactions, proposer)
        IN /\ proposer # None
           /\ validate_block(blocks, consensus, block)
           /\ ~add_block(Driver, block, now).result

\* ------------------------------------------------- the shared mempool
\* blockchain.py 127-130 in two steps, as the interpreter runs the
\* assignment: first the list comprehension reads self.pending_transactions
\* and builds the new list, kept in the call in progress ...
FilterProcessed ==
    /\ Committing("remove_processed")
    /\ commit' =
         <<[block |-> commit[1].block, pc |-> "store_pending",
            kept |-> SelectSeq(pending_transactions,
                       LAMBDA tx : \A i \in 1..Len(commit[1].block.transactions) :
                                       commit[1].block.transactions[i] # tx)]>>
    /\ UNCHANGED <<ledger, blocks, pending_transactions, storage, consensus,
                   rotation, slashing, finality, applied, replayVars, minted,
                   burned>>

\* ... then the new list is bound to self.pending_transactions, and add_block
\* returns True (blockchain.py 132).
StorePending ==
    /\ Committing("store_pending")
    /\ pending_transactions' = commit[1].kept
    /\ commit' = <<>>
    /\ UNCHANGED <<ledger, blocks, storage, consensus, rotation, slashing,
                   finality, applied, replayVars, minted, burned>>

\* node.py 51-63: the propose loop hands the block it has created to
\* add_block.
ProposeBlock(digest, now) ==
    LET proposer == select_proposer(rotation, digest)
    IN /\ proposer # None
       /\ BeginAddBlock(create_block(blocks, pending_transactions, proposer),
                        now)

\* The threads of the API server (api_server.py 62-72) call add_transaction
\* while the propose loop runs add_block; no lock is taken by either, so a
\* submission runs between any two statements of add_block.
NextShared ==
    \/ \E a \in Addrs, stake \in RegistryStakes : AddValidator(a, stake)
    \/ \E tx \in ChainTransactions : AddTransaction(tx, MaxMempool)
    \/ \E digest \in Digests, now \in Times : ProposeBlock(digest, now)
    \/ SaveBlockData
    \/ SaveBlockIndex
    \/ RecordBlock
    \/ ProcessSlashing
    \/ SaveState
    \/ SaveMetadata
    \/ FilterProcessed
    \/ StorePending

SpecShared == Init /\ [][NextShared]_vars

\* ------------------------------------------------- the readers
\* blockchain.py 96-98: the block passes _validate_block and the loop over
\* its transactions starts; next is the index of the transaction the loop
\* applies next.
ValidateBlock(block) ==
    /\ commit = <<>>
    /\ Len(blocks) < MaxBlocks
    /\ validate_block(blocks, consensus, block)
    /\ commit' = <<[block |-> block, pc |-> "apply", next |-> 1]>>
    /\ UNCHANGED <<ledger, blocks, pending_transactions, storage, consensus,
                   rotation, slashing, finality, applied, replayVars, minted,
                   burned>>

\* blockchain.py 101-106: one turn of the loop: the transaction is applied
\* to self.ledger, and add_block returns False if that raises.
ApplyNextTransaction(now) ==
    /\ Committing("apply")
    /\ commit[1].next <= Len(commit[1].block.transactions)
    /\ LET tx == commit[1].block.transactions[commit[1].next]
           r == ApplyInBlock(ledger, tx, commit[1].block, now)
       IN /\ ledger' = r.ledger
          /\ IF r.err = "ok"
             THEN /\ applied' = [applied EXCEPT ![tx.sender] = Append(@, tx.nonce)]
                  /\ commit' = <<[commit[1] EXCEPT !.next = @ + 1]>>
             ELSE /\ applied' = applied
                  /\ commit' = <<>>
    /\ UNCHANGED <<blocks, pending_transactions, storage, consensus, rotation,
                   slashing, finality, replayVars, minted, burned>>

\* blockchain.py 109: self.blocks.append(block), after the last transaction
AppendBlock ==
    /\ Committing("apply")
    /\ commit[1].next > Len(commit[1].block.transactions)
    /\ blocks' = Append(blocks, commit[1].block)
    /\ commit' = <<[block |-> commit[1].block, pc |-> "block_db"]>>
    /\ UNCHANGED <<ledger, pending_transactions, storage, consensus, rotation,
                   slashing, finality, applied, replayVars, minted, burned>>

\* add_block run statement by statement while the threads of the API server
\* (api_server.py 44-60) read the chain: a reader runs between any two steps,
\* and what it returns is get_balance and get_height of the state it finds.
NextReaders ==
    \/ \E a \in Addrs, stake \in RegistryStakes : AddValidator(a, stake)
    \/ \E block \in BlocksOffered : ValidateBlock(block)
    \/ \E now \in Times : ApplyNextTransaction(now)
    \/ AppendBlock
    \/ SaveBlockData
    \/ SaveBlockIndex
    \/ RecordBlock
    \/ ProcessSlashing
    \/ SaveState
    \/ SaveMetadata
    \/ RemoveProcessed

SpecReaders == Init /\ [][NextReaders]_vars

\* ------------------------------------------------- the statistics
\* ledger.total_supply(), which fills the cache it finds empty
TotalSupply ==
    /\ ledger' = total_supply(ledger).ledger
    /\ UNCHANGED <<chainVars, replayVars, applied, minted, burned>>

\* ledger.total_staked()
TotalStaked ==
    /\ ledger' = total_staked(ledger).ledger
    /\ UNCHANGED <<chainVars, replayVars, applied, minted, burned>>

\* The ledger's operations, with the statistics read between them.
NextStats ==
    \/ Next
    \/ TotalSupply
    \/ TotalStaked

SpecStats == Init /\ [][NextStats]_vars

\* ------------------------------------------------- the clone scenario
\* A ledger on which only A's balance was set: B has no entry in accounts.
OneAccountLedger ==
    Ledger([a \in Addrs |-> Account(IF a = "A" THEN GenesisBalance[a] ELSE 0,
                                    0, 0)], {"A"})

\* The ledger starts with both genesis balances set, or with A's only.
InitClone ==
    /\ ledger \in {GenesisLedger, OneAccountLedger}
    /\ blocks = <<>>
    /\ pending_transactions = <<>>
    /\ storage = EmptyStorage
    /\ consensus = <<>>
    /\ rotation = [keys |-> <<>>, validator_rotation |-> <<>>]
    /\ slashing = {}
    /\ finality = FinalityState
    /\ commit = <<>>
    /\ applied = [a \in Addrs |-> <<>>]
    /\ marked = {}
    /\ replay = [err |-> "none", unchanged |-> TRUE]
    /\ minted = 0
    /\ burned = 0

\* ledger.get_balance(address), which makes an entry for an address the
\* defaultdict does not hold
GetBalance(address) ==
    /\ ledger' = get_balance(ledger, address).ledger
    /\ UNCHANGED <<chainVars, replayVars, applied, minted, burned>>

\* The ledger's operations and its queries; a clone can be taken in every
\* state.
NextClone ==
    \/ Next
    \/ \E a \in Addrs : GetBalance(a)

SpecClone == InitClone /\ [][NextClone]_vars

\* ================================================================ properties
\* The ledger apply_transaction(ledger, tx, ...) leaves, for every offered tx.
Outcomes ==
    { [tx |-> tx, r |-> apply_transaction(ledger, tx, u, h, now)] :
        tx \in Transactions, u \in StakeUnits, h \in TxHeights, now \in Times }

\* C1: whenever apply_transaction fails, the ledger (accounts, validators,
\* delegations, unbonding queue) is as it was before the call; no fee is
\* taken by a failed transaction.
C1_FailedApplyLeavesLedger ==
    \A o \in Outcomes : o.r.err # "ok" => o.r.ledger = ledger

\* C2: whenever add_block returns False, the ledger, the chain, the store and
\* the registry's counters are as they were before the call.
C2_RejectedBlockLeavesDriver ==
    \A block \in BlocksOffered, now \in Times :
        LET r == add_block(Driver, block, now)
        IN ~r.result => r.driver = Driver

\* C3: the balances, the staked amounts, the unbonding amounts and the total
\* burned by slashing add up to the initial allocations plus the block
\* rewards credited.
C3_Conservation ==
    SumFun([a \in Addrs |-> ledger.accounts[a].balance
                              + ledger.accounts[a].staked], Addrs)
      + SumAmounts(ledger.unbonding) + burned
    = SumFun(GenesisBalance, Addrs) + minted

\* C4: apply_transaction succeeds only on the sender's current nonce, a
\* success raises that nonce by exactly 1 and nothing else changes a nonce;
\* the nonces a sender's applied transactions carried are 0, 1, 2, ...
C4_NonceDiscipline ==
    /\ \A a \in Addrs :
         /\ Len(applied[a]) = ledger.accounts[a].nonce
         /\ \A i \in 1..Len(applied[a]) : applied[a][i] = i - 1
    /\ \A o \in Outcomes :
         /\ o.r.err = "ok" => o.tx.nonce = ledger.accounts[o.tx.sender].nonce
         /\ \A a \in Addrs :
              o.r.ledger.accounts[a].nonce =
                  ledger.accounts[a].nonce
                    + (IF o.r.err = "ok" /\ a = o.tx.sender THEN 1 ELSE 0)

\* Two transactions of A have been applied.
C4_Witness ==
    applied["A"] = <<0, 1>> /\ ledger.accounts["A"].nonce = 2

\* C5: offering again a transaction that was applied with success fails with
\* a nonce mismatch and leaves the ledger unchanged.
C5_ReplayRejected ==
    replay.err \in {"none", "NonceMismatch"} /\ replay.unchanged

\* An applied transaction has been offered again and refused.
C5_Witness ==
    marked # {} /\ replay.err = "NonceMismatch"

\* C6: every validator's stake is the staked amount of its own account.
C6_ValidatorStakeIsStaked ==
    \A v \in DOMAIN ledger.validators :
        ledger.validators[v].stake = ledger.accounts[v].staked

\* C7: every validator's delegated_stake is the sum of the delegations made
\* to it.
C7_DelegatedStakeIsSum ==
    \A v \in DOMAIN ledger.validators :
        ledger.validators[v].delegated_stake =
            SumAmounts(SelectSeq(ledger.delegations,
                                 LAMBDA d : d.validator = v))

\* B became a validator with no self-stake, A delegated its 2 to B with its
\* only transaction, and a slash of B by one half has cut that delegation
\* to 1.
C7_Witness ==
    /\ "B" \in DOMAIN ledger.validators
    /\ ledger.validators["B"].stake = 0
    /\ ledger.validators["B"].delegated_stake = 1
    /\ burned = 1
    /\ ledger.accounts["A"] = Account(0, 1, 0)
    /\ ledger.accounts["B"] = Account(1, 1, 0)
    /\ \E i \in 1..Len(ledger.delegations) :
         /\ ledger.delegations[i].delegator = "A"
         /\ ledger.delegations[i].validator = "B"
         /\ ledger.delegations[i].amount = 1

\* C8: every balance, staked amount, validator stake and delegated_stake,
\* delegation amount and unbonding amount is at least 0.
C8_NonNegative ==
    /\ \A a \in Addrs :
         ledger.accounts[a].balance >= 0 /\ ledger.accounts[a].staked >= 0
    /\ \A v \in DOMAIN ledger.validators :
         ledger.validators[v].stake >= 0
           /\ ledger.validators[v].delegated_stake >= 0
    /\ \A i \in 1..Len(ledger.delegations) : ledger.delegations[i].amount >= 0
    /\ \A i \in 1..Len(ledger.unbonding) : ledger.unbonding[i].amount >= 0

\* C9: an UNSTAKE applied in a block at height h does not credit the sender
\* and queues an entry whose completion_height is h + unbonding_blocks, so
\* that process_mature_unbonding(h + unbonding_blocks - 1) does not release
\* it.
C9_UnstakeMaturesFromBlockHeight ==
    \A block \in BlocksOffered, now \in Times :
        LET r == add_block(Driver, block, now)
            queue == r.driver.ledger.unbonding
        IN r.result =>
             \A i \in (Len(ledger.unbonding) + 1)..Len(queue) :
                 /\ queue[i].completion_height = block.height + unbonding_blocks
                 /\ ~is_mature(queue[i], block.height + unbonding_blocks - 1)

\* C10: a successful UNDELEGATE of amount a from validator R takes a from the
\* delegation and from R.delegated_stake, appends an unbonding entry for R
\* and a, and credits nothing to the delegator.
C10_UndelegateUnbonds ==
    \A tx \in DelegationTransactions, now \in Times :
        LET r == apply_transaction(ledger, tx, 1, 0, now)
            before == ledger.accounts[tx.sender].balance
            queue == r.ledger.unbonding
        IN tx.tx_type = "undelegate" /\ r.err = "ok" =>
             /\ r.ledger.validators[tx.recipient].delegated_stake =
                    ledger.validators[tx.recipient].delegated_stake - tx.amount
             /\ r.ledger.accounts[tx.sender].balance = before - tx.fee
             /\ Len(queue) = Len(ledger.unbonding) + 1
             /\ queue[Len(queue)].address = tx.sender
             /\ queue[Len(queue)].validator = tx.recipient
             /\ queue[Len(queue)].amount = tx.amount

\* C11: slash_validator(v, f) returns floor(total_stake * f), and v's total
\* stake after the call is lower than before by exactly the amount returned,
\* for every validator that has self-stake.
C11_SlashExact ==
    \A v \in DOMAIN ledger.validators, f \in SlashFractions :
        LET r == slash_validator(ledger, v, f)
            before == total_stake(ledger.validators[v])
            after == total_stake(r.ledger.validators[v])
        IN ledger.validators[v].stake > 0 =>
             /\ r.amount = (before * f[1]) \div f[2]
             /\ after = before - r.amount

\* The ledger of the scenario: V = A with self-stake 1000, D = B delegating 400.
C12_Scenario == SlashLedger(1000, 0, 400)

\* C12: with V holding self-stake 1000 and one delegation of 400 from D,
\* slash_validator(V, 0.10) returns 140 and leaves V.stake = 900, D's
\* delegation at 360 and V.delegated_stake = 360.
C12_SlashScenario ==
    ledger = C12_Scenario =>
        LET r == slash_validator(ledger, "A", <<1, 10>>)
        IN /\ r.amount = 140
           /\ r.ledger.validators["A"].stake = 900
           /\ r.ledger.validators["A"].delegated_stake = 360
           /\ Len(r.ledger.delegations) = 1
           /\ r.ledger.delegations[1].delegator = "B"
           /\ r.ledger.delegations[1].amount = 360

\* C12, amended: in the same scenario slash_validator(V, 0.10) returns 140
\* and takes all of it from the self-stake: V.stake = 860, V's account has
\* 860 staked, D's delegation stays 400 and V.delegated_stake stays 400.
C12_SlashScenarioSelfFirst ==
    ledger = C12_Scenario =>
        LET r == slash_validator(ledger, "A", <<1, 10>>)
        IN /\ r.amount = 140
           /\ r.ledger.validators["A"].stake = 860
           /\ r.ledger.accounts["A"].staked = 860
           /\ r.ledger.validators["A"].delegated_stake = 400
           /\ r.ledger.delegations = ledger.delegations

\* The scenario's ledger after the slash by 0.10.
C12_Witness ==
    /\ burned = 140
    /\ ledger = slash_validator(C12_Scenario, "A", <<1, 10>>).ledger
    /\ ledger.validators["A"].stake = 860
    /\ ledger.delegations[1].amount = 400

\* C13: two ledgers in the same state that apply the same transaction at the
\* same height have the same state_root afterwards, whatever the wall-clock
\* time of each.
C13_ReplayDeterminism ==
    \A tx \in Transactions, u \in StakeUnits, h \in TxHeights :
        \A now1 \in Clocks, now2 \in Clocks :
            state_root(apply_transaction(ledger, tx, u, h, now1).ledger)
              = state_root(apply_transaction(ledger, tx, u, h, now2).ledger)

\* C14: two ledgers holding the same accounts, validators, delegations and
\* unbonding entries have the same snapshot and state_root, whatever the
\* order in which the records were inserted.
C14_SnapshotOrderFree ==
    \A tx1 \in StakingTransactions, tx2 \in StakingTransactions :
        LET Range(q) == { q[i] : i \in 1..Len(q) }
            Then(L, tx) == apply_transaction(L, tx, 1, 0, 0).ledger
            L12 == Then(Then(ledger, tx1), tx2)
            L21 == Then(Then(ledger, tx2), tx1)
        IN /\ tx1.tx_type = "unstake" /\ tx2.tx_type = "unstake"
           /\ tx1.sender # tx2.sender
           /\ L12.accounts = L21.accounts
           /\ L12.validators = L21.validators
           /\ Range(L12.delegations) = Range(L21.delegations)
           /\ Range(L12.unbonding) = Range(L21.unbonding)
           /\ Len(L12.unbonding) = Len(L21.unbonding)
           => /\ snapshot(L12) = snapshot(L21)
              /\ state_root(L12) = state_root(L21)

\* C15: latest_finalized_height never decreases, and an entry of
\* finalized_blocks, once written, is never removed or changed.
C15_FinalityMonotone ==
    [][/\ finality'.latest_finalized_height >= finality.latest_finalized_height
       /\ \A h \in DOMAIN finality.finalized_blocks :
            /\ h \in DOMAIN finality'.finalized_blocks
            /\ finality'.finalized_blocks[h] = finality.finalized_blocks[h]]_vars

\* Height 4 was finalized, then height 0: two entries, the latest height 4.
C15_Witness ==
    /\ DOMAIN finality.finalized_blocks = {0, 4}
    /\ finality.latest_finalized_height = 4
    /\ finality.finalized_blocks[0] # finality.finalized_blocks[4]

\* C16: try_finalize_block returns True exactly when the height is not yet
\* finalized, current_height - height >= finality_depth and the votes for the
\* hash carry a stake share >= supermajority_threshold; on True it records
\* the hash at the height, sets latest_finalized_height to the larger of its
\* old value and the height, and drops the hash's votes; on False the state
\* is unchanged.
C16_TryFinalize ==
    \A bh \in Hashes, h \in VoteHeights, c \in CurrentHeights,
       validators \in StakeMaps :
        LET r == try_finalize_block(finality, bh, h, c, validators)
            voters == IF bh \in DOMAIN finality.votes_by_block
                      THEN { w.validator : w \in finality.votes_by_block[bh] }
                      ELSE {}
            voted == SumFun(validators, voters)
            total == SumFun(validators, Voters)
            old == finality.latest_finalized_height
        IN /\ r.result <=>
                /\ h \notin DOMAIN finality.finalized_blocks
                /\ c - h >= finality.finality_depth
                /\ bh \in DOMAIN finality.votes_by_block
                /\ total > 0
                /\ voted * 100 >= 67 * total
           /\ r.result =>
                /\ r.state.finalized_blocks =
                       (h :> bh) @@ finality.finalized_blocks
                /\ r.state.latest_finalized_height = (IF h > old THEN h ELSE old)
                /\ bh \notin DOMAIN r.state.votes_by_block
                /\ \A x \in DOMAIN finality.votes_by_block \ {bh} :
                       /\ x \in DOMAIN r.state.votes_by_block
                       /\ r.state.votes_by_block[x] = finality.votes_by_block[x]
           /\ ~r.result => r.state = finality

\* A block was finalized at height 4 as h1, the votes for h1 are
\* dropped, and the other hash still holds a vote.
C16_Witness ==
    /\ DOMAIN finality.finalized_blocks = {4}
    /\ finality.finalized_blocks[4] = "h1"
    /\ "h1" \notin DOMAIN finality.votes_by_block
    /\ "h2" \in DOMAIN finality.votes_by_block
    /\ finality.votes_by_block["h2"] # {}
    /\ finality.latest_finalized_height = 4

\* C17: with three validators of stake 100, threshold 0.67 and depth 3, a
\* block with votes from exactly two of them has a supermajority, and
\* try_finalize_block on it at height 4 succeeds at current_height 7.
C17_TwoOfThree ==
    \A bh \in DOMAIN finality.votes_by_block :
        LET validators == [v \in Voters |-> 100]
        IN /\ Cardinality(finality.votes_by_block[bh]) = 2
           /\ 4 \notin DOMAIN finality.finalized_blocks
           => /\ has_supermajority(finality, bh, validators)
              /\ try_finalize_block(finality, bh, 4, 7, validators).result

C20_SelectProposerReference ==
    LET sorted == <<"A", "B", "C">>
        active == SelectSeq(sorted,
                      LAMBDA a : a \in DOMAIN consensus /\ consensus[a].is_active)
        weight(a) == IF consensus[a].stake \div min_stake >= 1
                     THEN consensus[a].stake \div min_stake ELSE 1
        upto(k) == SumFun([i \in 1..k |-> weight(active[i])], 1..k)
        total_weight == upto(Len(active))
        reference(digest) ==
            IF active = <<>> THEN None
            ELSE LET index == digest % total_weight
                     k == CHOOSE j \in 1..Len(active) :
                              upto(j - 1) <= index /\ index < upto(j)
                 IN active[k]
    IN \A digest \in Digests :
           select_proposer(rotation, digest) = reference(digest)

\* C21: add_block accepts a block only if its proposer is registered and
\* active; a block proposed at a height below jailed_until by a validator that
\* jail_validator has jailed is rejected, and so is the block of a proposer
\* whose stake is below min_stake.
C21_ProposerEligible ==
    \A block \in EmptyBlocks, now \in Times :
        LET v == block.validator
        IN add_block(Driver, block, now).result =>
             /\ v \in DOMAIN consensus
             /\ consensus[v].is_active
             /\ consensus[v].stake >= min_stake
             /\ v \in DOMAIN ledger.validators =>
                    is_active(ledger.validators[v], block.height, min_stake)

\* C22: the i-th committed block has height i, counted from 0, so heights grow
\* by exactly 1; add_block accepts a block only at height get_height() + 1 and
\* a block of any other height is rejected with the driver unchanged.
C22_HeightContiguity ==
    /\ \A i \in 1..Len(blocks) : blocks[i].height = i - 1
    /\ \A block \in LinkBlocks, now \in Times :
         LET r == add_block(Driver, block, now)
         IN /\ r.result => block.height = get_height(blocks) + 1
            /\ block.height # get_height(blocks) + 1 =>
                   ~r.result /\ r.driver = Driver

\* Two blocks are committed; a stale and a skipping block are on offer.
C22_Witness ==
    /\ Len(blocks) = MaxBlocks
    /\ blocks[Len(blocks)].height = MaxBlocks - 1
    /\ \E stale, skipping \in LinkBlocks :
         /\ stale.height < Len(blocks)
         /\ skipping.height > Len(blocks)
         /\ skipping.prev_hash = blocks[Len(blocks)].hash
         /\ skipping.validator \in DOMAIN consensus
         /\ ~add_block(Driver, stale, 0).result
         /\ ~add_block(Driver, skipping, 0).result

\* C23: every committed block after the first has prev_hash equal to the hash
\* of the block committed just before it, and the first block of the chain is
\* accepted only with the all-zero prev_hash.
C23_HashLinkage ==
    /\ \A i \in 2..Len(blocks) : blocks[i].prev_hash = blocks[i - 1].hash
    /\ blocks # <<>> => blocks[1].prev_hash = ZeroHash
    /\ \A block \in LinkBlocks, now \in Times :
         blocks = <<>> /\ add_block(Driver, block, now).result =>
             block.prev_hash = ZeroHash

\* C24: every committed block carries a signature that verifies, the blocks
\* of the propose loop included, and add_block rejects a block that is
\* unsigned or whose signature does not verify.
C24_BlocksSigned ==
    /\ \A i \in 1..Len(blocks) : block_verify_signature(blocks[i])
    /\ \A proposer \in Addrs, now \in Times :
         LET block == create_block(blocks, pending_transactions, proposer)
         IN ~block_verify_signature(block) =>
                ~add_block(Driver, block, now).result

\* C25: the mempool never holds two transactions with the same txid, and
\* add_transaction of a transaction whose txid is pending leaves the mempool
\* unchanged.
C25_NoDuplicateTxid ==
    /\ \A i, j \in 1..Len(pending_transactions) :
         txid(pending_transactions[i]) = txid(pending_transactions[j]) => i = j
    /\ \A tx \in NodeTransactions :
         (\E i \in 1..Len(pending_transactions) :
              txid(pending_transactions[i]) = txid(tx)) =>
             add_transaction(pending_transactions, tx).pending
                 = pending_transactions

\* C26: on a successful add_block the storage writes run in the order
\* save_block, save_state, save_metadata, and the proof-of-stake registry and
\* the slashing manager are told of the block only after all three: once
\* record_block or process_block has run for a block, the block, the state and
\* the metadata of that block are in storage.
C26_CommitOrder ==
    LET Saved(block) ==
            /\ block.height \in DOMAIN storage.block_db
            /\ storage.block_db[block.height] = block
            /\ block.hash \in DOMAIN storage.index_db
        Written(block) ==
            /\ Saved(block)
            /\ storage.state = <<get_state(ledger)>>
            /\ storage.meta = <<[height |-> block.height,
                                 latest_hash |-> block.hash]>>
    IN /\ Committing("save_metadata") => Saved(commit[1].block)
       /\ Committing("remove_processed") => Written(commit[1].block)
       /\ Committing("process_block") => Written(commit[1].block)
       /\ Committing("save_state") => Written(commit[1].block)

\* C28: outside the two writes of save_block, a crash between them included,
\* storage holds block:<height> exactly when it holds hash:<block_hash> of the
\* same block.
C28_SaveBlockAtomic ==
    ~Committing("index_db") =>
        /\ \A h \in DOMAIN storage.block_db :
             /\ storage.block_db[h].hash \in DOMAIN storage.index_db
             /\ storage.index_db[storage.block_db[h].hash] = h
        /\ \A hs \in DOMAIN storage.index_db :
             /\ storage.index_db[hs] \in DOMAIN storage.block_db
             /\ storage.block_db[storage.index_db[hs]].hash = hs

\* C29: whatever statement of add_block a crash interrupts, the ledger that
\* _load_state builds at the restart is the genesis ledger with the stored
\* blocks of heights 0 .. metadata height applied to it, once each and in
\* order.
C29_CrashConsistency ==
    LET last == IF storage.meta = <<>> THEN 0 - 1 ELSE storage.meta[1].height
        Replayed[h \in (0 - 1)..MaxBlocks] ==
            IF h < 0 THEN GenesisLedger
            ELSE IF h \notin DOMAIN storage.block_db THEN Replayed[h - 1]
            ELSE ApplyBlockTransactions(Replayed[h - 1], storage.block_db[h],
                                        1, 0, 0).ledger
    IN load_chain(storage).ledger = Replayed[last]

\* C27: the chain stays live after a rejection: whenever the block of the
\* propose loop is rejected because a transaction fails to apply, a later
\* turn of the loop commits a block.
C27_LiveAfterRejection ==
    \A n \in 0..(MaxBlocks - 1) :
        (RejectsForTransaction /\ Len(blocks) = n) ~> (Len(blocks) > n)

\* C30: the state a checkpoint leads to is the state at the checkpoint's
\* height for good: no step that leaves the checkpoint entry as it is, a
\* later save_state included, changes the state reached through it.
C30_CheckpointFrozen ==
    [][\A name \in DOMAIN storage.checkpoints :
           /\ checkpoint_state(storage, name) # <<>>
           /\ name \in DOMAIN storage'.checkpoints
           /\ storage'.checkpoints[name] = storage.checkpoints[name]
           => checkpoint_state(storage', name) = checkpoint_state(storage, name)
      ]_vars

\* C33: no delegation has amount 0: not in any reachable state, and not in
\* the ledger any DELEGATE or UNDELEGATE (amount 0 included) or any
\* slash_validator leaves, so that a delegation brought to 0 is removed by
\* the operation that brought it there.
C33_NoEmptyDelegation ==
    LET Positive(L) ==
            \A i \in 1..Len(L.delegations) : L.delegations[i].amount > 0
    IN /\ Positive(ledger)
       /\ \A tx \in DelegationTransactions, now \in Times :
              Positive(apply_transaction(ledger, tx, 1, 0, now).ledger)
       /\ \A v \in Addrs, f \in Fractions :
              Positive(slash_validator(ledger, v, f).ledger)

\* B is a validator, and A, which is none, has applied two transactions:
\* the DELEGATE to B and the UNDELEGATE of all of it, after which the table
\* is empty.
C33_Witness ==
    /\ DOMAIN ledger.validators = {"B"}
    /\ ledger.validators["B"].delegated_stake = 0
    /\ ledger.delegations = <<>>
    /\ ledger.accounts["A"].nonce = 2
    /\ burned = 0

\* C34: process_mature_unbonding(H) credits every queued entry whose
\* completion_height is at most H to its address, once, takes exactly those
\* entries out of the queue and leaves the others in their order, changes
\* nothing else of any account, validator or delegation, and returns the
\* number of entries taken out; a second call with the same H credits nothing
\* and returns 0.
C34_MatureUnbondingOnce ==
    \A H \in Heights :
        LET r == process_mature_unbonding(ledger, H)
            again == process_mature_unbonding(r.ledger, H)
            Due(entry) == entry.completion_height <= H
            NotDue(entry) == ~Due(entry)
            Owed(a) == SumAmounts(SelectSeq(ledger.unbonding,
                           LAMBDA entry : Due(entry) /\ entry.address = a))
        IN /\ \A a \in Addrs :
                r.ledger.accounts[a] =
                    [ledger.accounts[a] EXCEPT !.balance = @ + Owed(a)]
           /\ r.ledger.unbonding = SelectSeq(ledger.unbonding, NotDue)
           /\ r.count = Len(SelectSeq(ledger.unbonding, Due))
           /\ r.ledger.validators = ledger.validators
           /\ r.ledger.delegations = ledger.delegations
           /\ again.count = 0
           /\ again.ledger = r.ledger

\* A has unstaked 1 at height 0 and 1 at height 1: at height unbonding_blocks
\* the first entry is due and the second is not.
C34_Witness ==
    /\ Len(ledger.unbonding) = 2
    /\ ledger.unbonding[1].completion_height = unbonding_blocks
    /\ ledger.unbonding[2].completion_height = unbonding_blocks + 1
    /\ ledger.unbonding[1].address = "A"
    /\ ledger.unbonding[1].amount = 1

\* C40: a CREATE_VALIDATOR whose amount is below the chain's minimum
\* self-stake, the min_stake_unit apply_transaction is called with, is
\* rejected whatever its data holds.
C40_MinimumSelfStakeEnforced ==
    \A tx \in StakingTransactions, u \in StakeUnits, now \in Times :
        tx.tx_type = "create_validator" /\ tx.amount < u
            => apply_transaction(ledger, tx, u, 0, now).err # "ok"

\* C36: a block hash is finalized only at its own height: whenever
\* try_finalize_block or FinalityManager.process_block records
\* finalized_blocks[h] = x, every vote held for x carries block_height h.
C36_FinalizedAtOwnHeight ==
    \A bh \in Hashes, h \in VoteHeights, c \in CurrentHeights,
       validators \in StakeMaps :
        LET OwnHeight(F) ==
                \A k \in DOMAIN F.finalized_blocks \ DOMAIN finality.finalized_blocks :
                    \A vote \in finality.votes_by_block[F.finalized_blocks[k]] :
                        vote.block_height = k
        IN /\ OwnHeight(try_finalize_block(finality, bh, h, c, validators).state)
           /\ OwnHeight(manager_process_block(finality, bh, h, c, validators).state)

\* C35: only the holder of A's key spends from A: apply_transaction takes a
\* transaction whose sender is A only if the address derived from its
\* sender_pubkey is A, and a transaction that names A and is signed with
\* another key is rejected and leaves A's account as it was.
C35_OnlyKeyHolderSpends ==
    \A tx \in Unsigned(Transactions), keypair \in KeyPairs, now \in Times :
        LET signed_tx == transaction_sign(tx, keypair)
            r == apply_transaction(ledger, signed_tx, 1, 0, now)
        IN address_from_public_key(signed_tx.sender_pubkey) # signed_tx.sender
             => /\ r.err # "ok"
                /\ r.ledger.accounts[tx.sender] = ledger.accounts[tx.sender]

\* C38: the height survives a restart: a driver built again over the storage
\* of a chain of any length reports, in get_height(), the height of the
\* persisted metadata and has the block of that height as its latest block,
\* so that the block of the next height is accepted.
C38_HeightSurvivesRestart ==
    storage.meta # <<>> =>
        LET height == storage.meta[1].height
        IN /\ get_height(blocks) = height
           /\ blocks # <<>> /\ blocks[Len(blocks)].height = height
           /\ "B" \in DOMAIN consensus
                => validate_block(blocks, consensus, NextEmptyBlock(height + 1))

\* C31: a transaction add_transaction has accepted stays in the mempool until
\* a block that holds it is on the chain: no step, of a submitter or of
\* add_block, takes out of the mempool a transaction that no block of the
\* chain holds.
C31_MempoolKeepsAccepted ==
    [][ \A i \in 1..Len(pending_transactions) :
          LET tx == pending_transactions[i]
          IN \/ \E j \in 1..Len(pending_transactions') :
                   pending_transactions'[j] = tx
             \/ \E b \in 1..Len(blocks') :
                   \E k \in 1..Len(blocks'[b].transactions) :
                       blocks'[b].transactions[k] = tx
      ]_vars

\* C32: readers see only committed states: in every state a reader can run
\* in, get_balance of every address is its balance in the ledger as of some
\* block of the chain (the genesis ledger with the blocks up to that one
\* applied) or as of the block add_block is applying, if all of it applies;
\* never one left by part of a block or by a rejected block.
C32_ReadersSeeCommitted ==
    LET AsOf[k \in 0..MaxBlocks] ==
            IF k = 0 THEN GenesisLedger
            ELSE IF k > Len(blocks) THEN AsOf[k - 1]
            ELSE ApplyBlockTransactions(AsOf[k - 1], blocks[k], 1, 0, 0).ledger
        whole == ApplyBlockTransactions(AsOf[MaxBlocks], commit[1].block, 1, 0, 0)
    IN \A a \in Addrs :
           \/ \E k \in 0..MaxBlocks :
                  get_balance(ledger, a).value = get_balance(AsOf[k], a).value
           \/ /\ Committing("apply")
              /\ whole.err = "ok"
              /\ get_balance(ledger, a).value
                   = get_balance(whole.ledger, a).value

\* C39: the cached statistics are coherent: after any calls of
\* apply_transaction, apply_block_reward, process_mature_unbonding and
\* slash_validator, total_supply() is the sum of balance + staked over the
\* accounts and total_staked() the sum of total_stake() over the validators.
C39_StatisticsCoherent ==
    /\ total_supply(ledger).value =
           SumFun([a \in Addrs |-> ledger.accounts[a].balance
                                     + ledger.accounts[a].staked], Addrs)
    /\ total_staked(ledger).value =
           SumFun([v \in DOMAIN ledger.validators |->
                       ledger.validators[v].stake
                         + ledger.validators[v].delegated_stake],
                  DOMAIN ledger.validators)

\* C37: the clone of a ledger has the state_root of the ledger, answers every
\* get_balance as the ledger does, and gives every transaction, and every
\* query after it, the outcome the ledger gives it: the same error or
\* success, the same state_root after.
C37_CloneEquivalent ==
    LET copy == clone(ledger)
        SameAnswer(L, M) ==
            \A a \in Addrs :
                /\ get_balance(L, a).err = get_balance(M, a).err
                /\ get_balance(L, a).value = get_balance(M, a).value
    IN /\ state_root(copy) = state_root(ledger)
       /\ SameAnswer(copy, ledger)
       /\ \A tx \in Transactions, now \in Times :
              LET r == apply_transaction(ledger, tx, 1, 0, now)
                  c == apply_transaction(copy, tx, 1, 0, now)
              IN /\ c.err = r.err
                 /\ state_root(c.ledger) = state_root(r.ledger)
                 /\ SameAnswer(c.ledger, r.ledger)

====
